---- MODULE Spec2Model ----
(***************************************************************************)
(* A model of the pseudo-terminal session of StarsfallServersManager       *)
(* (src/src/terminalProvider.ts, class TerminalProvider): the line editor, *)
(* the command dispatcher, the command history and the session flags.      *)
(*                                                                         *)
(* Text is a sequence of characters; a character is a one-token string.    *)
(* Control characters are the tokens ETX, BS, TAB, LF, FF, CR, ESC, DEL.   *)
(***************************************************************************)
EXTENDS Integers, Sequences, FiniteSets, TLC

VARIABLES
    tp,       \* the fields of the TerminalProvider object
    pend,     \* directory-change round trips issued and not yet answered
    chan,     \* the shell channel: "none", "connecting", "ready", "open",
              \* "failed", "ending" (ended by close()), "closed"
    xfer,     \* file transfers started whose streams have not closed yet
    tabq,     \* completion queries sent to the remote side and not yet answered
    pre,      \* tp as it was before the last step
    last,     \* the last step: its kind, its input, whether it threw, and the
              \* number of round trips that were outstanding when it began
    writes,   \* what the last step wrote to sshStream, in order
    sink      \* what the last step fired on writeEmitter, in order

vars == <<tp, pend, chan, xfer, tabq, pre, last, writes, sink>>

-----------------------------------------------------------------------------
(* Bounds of the model *)

MaxBuf == 12      \* characters in the single-line text and in the multi-line buffer
MaxLines == 3     \* lines of the multi-line buffer
MaxHist == 2      \* entries of the command history
MaxPend == 1      \* directory-change round trips outstanding at once
MaxXfer == 2      \* transfers outstanding at once
MaxEditorBuf == 4 \* characters accumulated in the pass-through buffer
\* Characters on the line beyond which the width scenarios insert no more.
MaxWide == 4

-----------------------------------------------------------------------------
(* Characters *)

ETX == "ETX"
TAB == "TAB"
LF == "LF"
FF == "FF"
CR == "CR"
ESC == "ESC"
DEL == "DEL"
BSL == "\\"
WIDE == "U4E2D"

\* String.prototype.charCodeAt for one character.  Printable ASCII other than
\* the ones listed is only ever compared against the control codes and the
\* CJK ranges, so it is given the code of its class representative.
CharCode(c) ==
    CASE c = ETX -> 3
      [] c = "BS" -> 8
      [] c = TAB -> 9
      [] c = LF -> 10
      [] c = FF -> 12
      [] c = CR -> 13
      [] c = ESC -> 27
      [] c = " " -> 32
      [] c = DEL -> 127
      [] c = WIDE -> 20013
      [] OTHER -> 97

IsSpace(c) == c \in {" ", TAB, LF, FF, CR}

-----------------------------------------------------------------------------
(* JavaScript string and array primitives *)

Min(a, b) == IF a < b THEN a ELSE b
Max(a, b) == IF a > b THEN a ELSE b

\* The index normalisation of String.prototype.slice / Array.prototype.slice.
SliceIndex(i, n) == IF i < 0 THEN Max(n + i, 0) ELSE Min(i, n)

\* s.slice(a, b), 0-based, end exclusive.
Slice(s, a, b) ==
    LET from == SliceIndex(a, Len(s))
        to == SliceIndex(b, Len(s))
    IN IF from >= to THEN <<>> ELSE SubSeq(s, from + 1, to)

\* s.slice(a)
SliceFrom(s, a) == Slice(s, a, Len(s))

StartsWith(s, p) == Len(s) >= Len(p) /\ SubSeq(s, 1, Len(p)) = p

EndsWith(s, p) == Len(s) >= Len(p) /\ SubSeq(s, Len(s) - Len(p) + 1, Len(s)) = p

\* s.includes(p)
Includes(s, p) == \E i \in 0..(Len(s) - Len(p)) : SubSeq(s, i + 1, i + Len(p)) = p

RECURSIVE TrimStart(_)
TrimStart(s) == IF s # <<>> /\ IsSpace(Head(s)) THEN TrimStart(Tail(s)) ELSE s

RECURSIVE TrimEnd(_)
TrimEnd(s) ==
    IF s # <<>> /\ IsSpace(s[Len(s)]) THEN TrimEnd(SubSeq(s, 1, Len(s) - 1)) ELSE s

\* s.trim()
Trim(s) == TrimEnd(TrimStart(s))

\* s.split(' '): the pieces between single spaces, empty pieces kept.
RECURSIVE SplitSpace(_, _)
SplitSpace(s, cur) ==
    IF s = <<>> THEN <<cur>>
    ELSE IF Head(s) = " " THEN <<cur>> \o SplitSpace(Tail(s), <<>>)
    ELSE SplitSpace(Tail(s), Append(cur, Head(s)))

\* s.split(/\r\n|\r|\n/)
RECURSIVE SplitLines(_, _)
SplitLines(s, cur) ==
    IF s = <<>> THEN <<cur>>
    ELSE IF Len(s) >= 2 /\ s[1] = CR /\ s[2] = LF
         THEN <<cur>> \o SplitLines(Tail(Tail(s)), <<>>)
    ELSE IF Head(s) \in {CR, LF} THEN <<cur>> \o SplitLines(Tail(s), <<>>)
    ELSE SplitLines(Tail(s), Append(cur, Head(s)))

\* /\r\n|\r|\n/.test(s)
HasNewline(s) == \E i \in 1..Len(s) : s[i] \in {CR, LF}

\* s.split(/\s+/): maximal runs of white space separate; empty pieces at the
\* ends are kept, as JavaScript keeps them.
RECURSIVE SplitWs(_, _, _)
SplitWs(s, cur, inWs) ==
    IF s = <<>> THEN <<cur>>
    ELSE IF IsSpace(Head(s))
         THEN IF inWs THEN SplitWs(Tail(s), cur, TRUE)
              ELSE <<cur>> \o SplitWs(Tail(s), <<>>, TRUE)
    ELSE SplitWs(Tail(s), Append(cur, Head(s)), FALSE)

RECURSIVE FilterNonBlank(_)
FilterNonBlank(xs) ==
    IF xs = <<>> THEN <<>>
    ELSE IF Trim(Head(xs)) # <<>> THEN <<Head(xs)>> \o FilterNonBlank(Tail(xs))
    ELSE FilterNonBlank(Tail(xs))

\* arr.splice(i, 0, x): a negative index counts from the end, an index past
\* the end appends.
InsertAt(arr, i, x) ==
    LET k == SliceIndex(i, Len(arr))
    IN SubSeq(arr, 1, k) \o <<x>> \o SubSeq(arr, k + 1, Len(arr))

\* arr.splice(i, 1): a negative index counts from the end, an index past the
\* end removes nothing.
RemoveAt(arr, i) ==
    LET k == SliceIndex(i, Len(arr))
    IN IF k >= Len(arr) THEN arr
       ELSE SubSeq(arr, 1, k) \o SubSeq(arr, k + 2, Len(arr))

\* arr.splice(i, n) for 0 <= i: removes n elements from index i on.
RemoveRange(arr, i, n) ==
    IF n <= 0 THEN arr
    ELSE SubSeq(arr, 1, Min(i, Len(arr))) \o SubSeq(arr, i + n + 1, Len(arr))

RECURSIVE Sum(_)
Sum(xs) == IF xs = <<>> THEN 0 ELSE Head(xs) + Sum(Tail(xs))

\* JavaScript's `undefined` (an array read outside the array) and NaN (what
\* arithmetic on undefined gives), as two numbers no index or length takes.
UNDEF == -1000001
NaN == -1000000

IsNum(x) == x # UNDEF /\ x # NaN

\* arr[i], 0-based
Get(arr, i) == IF i >= 0 /\ i < Len(arr) THEN arr[i + 1] ELSE UNDEF

Plus(a, b) == IF IsNum(a) /\ IsNum(b) THEN a + b ELSE NaN

Minus(a, b) == IF IsNum(a) /\ IsNum(b) THEN a - b ELSE NaN

\* arr[i] = x, 0-based: an index at the end appends, one past it leaves holes.
RECURSIVE SetAtPad(_, _, _, _)
SetAtPad(arr, i, x, hole) ==
    IF i < 0 THEN arr
    ELSE IF i < Len(arr) THEN [arr EXCEPT ![i + 1] = x]
    ELSE IF i = Len(arr) THEN Append(arr, x)
    ELSE SetAtPad(Append(arr, hole), i, x, hole)

SetAt(arr, i, x) == SetAtPad(arr, i, x, UNDEF)

\* s.slice(a, b) where a or b may be undefined or NaN: an undefined end is the
\* end of s, every other undefined or NaN is 0.
SliceU(s, a, b) ==
    Slice(s, IF IsNum(a) THEN a ELSE 0,
             IF b = UNDEF THEN Len(s) ELSE IF b = NaN THEN 0 ELSE b)

\* s.slice(a) where a may be undefined or NaN
SliceFromU(s, a) == SliceU(s, a, UNDEF)

-----------------------------------------------------------------------------
(* What a step writes: to the terminal (writeEmitter) and to the shell stream *)

\* One writeEmitter.fire: k names the kind, n carries a count, s carries text.
Txt(s) == [k |-> "text", n |-> 0, s |-> s]
Msg(name) == [k |-> "msg", n |-> 0, s |-> <<name>>]
Csi(c, n) == [k |-> c, n |-> n, s |-> <<>>]

Fire(m, e) == [m EXCEPT !.o = Append(@, e)]

\* this.sshStream.write(text) under `if (this.sshStream)`
StreamWrite(m, text) == IF m.tp.sshStream THEN [m EXCEPT !.w = Append(@, text)] ELSE m

-----------------------------------------------------------------------------
(* The object after construction *)

InitTp ==
    [ systemType |-> "ubuntu",
      username |-> <<"u">>,
      hostname |-> <<"h">>,
      sshClient |-> FALSE,
      sshStream |-> FALSE,
      cmd |-> <<>>,
      isMultiLine |-> FALSE,
      multiLineBuffer |-> <<>>,
      isEditorMode |-> FALSE,
      editorBuffer |-> <<>>,
      cursorPosition |-> 0,
      currentLine |-> 0,
      currentColumn |-> 0,
      lineLengths |-> <<0>>,
      lineStartIndexes |-> <<0>>,
      lineDisplayWidths |-> << <<>> >>,
      isInsertMode |-> FALSE,
      currentWorkingDirectory |-> <<"~">>,
      lastWorkingDirectory |-> <<"~">>,
      commandHistory |-> <<>>,
      historyIndex |-> -1 ]

initWidthTracking(m) == [m EXCEPT !.tp.lineDisplayWidths = << <<>> >>]

\* resetTerminalState also returning the cached directory to the home directory.
resetTerminalStateAndDirectory(m) ==
    initWidthTracking(
        [m EXCEPT !.tp.isEditorMode = FALSE,
                  !.tp.isMultiLine = FALSE,
                  !.tp.multiLineBuffer = <<>>,
                  !.tp.editorBuffer = <<>>,
                  !.tp.cmd = <<>>,
                  !.tp.currentLine = 0,
                  !.tp.currentColumn = 0,
                  !.tp.cursorPosition = 0,
                  !.tp.lineStartIndexes = <<0>>,
                  !.tp.lineLengths = <<0>>,
                  !.tp.currentWorkingDirectory = <<"~">>])

resetTerminalState(m) ==
    initWidthTracking(
        [m EXCEPT !.tp.isEditorMode = FALSE,
                  !.tp.isMultiLine = FALSE,
                  !.tp.multiLineBuffer = <<>>,
                  !.tp.editorBuffer = <<>>,
                  !.tp.cmd = <<>>,
                  !.tp.currentLine = 0,
                  !.tp.currentColumn = 0,
                  !.tp.cursorPosition = 0,
                  !.tp.lineStartIndexes = <<0>>,
                  !.tp.lineLengths = <<0>>])

-----------------------------------------------------------------------------
(* Command history *)

\* addToHistory without the comparison with the last entry.
addToHistoryAlways(m, command) ==
    IF Trim(command) # <<>>
    THEN [m EXCEPT !.tp.commandHistory = Append(@, command),
                   !.tp.historyIndex = -1]
    ELSE m

addToHistory(m, command) ==
    LET h == m.tp.commandHistory
    IN IF Trim(command) # <<>> /\ (h = <<>> \/ command # h[Len(h)])
       THEN [m EXCEPT !.tp.commandHistory = Append(h, command),
                      !.tp.historyIndex = -1]
       ELSE m

\* getPrevCommandFromHistory starting at the oldest entry.
getPrevCommandFromHistoryOldestFirst(m) ==
    LET h == m.tp.commandHistory
    IN IF Len(h) = 0 THEN m
       ELSE IF m.tp.historyIndex = -1
            THEN [m EXCEPT !.tp.historyIndex = 0]
            ELSE [m EXCEPT !.tp.historyIndex = Max(m.tp.historyIndex - 1, 0)]

\* The state after getPrevCommandFromHistory; the command it returns is
\* PrevCommand below (undefined when the history is empty).
getPrevCommandFromHistory(m) ==
    LET h == m.tp.commandHistory
    IN IF Len(h) = 0 THEN m
       ELSE IF m.tp.historyIndex = -1
            THEN [m EXCEPT !.tp.historyIndex = Len(h) - 1]
            ELSE [m EXCEPT !.tp.historyIndex = Max(m.tp.historyIndex - 1, 0)]

\* getNextCommandFromHistory without the clamp at the end of the list.
getNextCommandFromHistoryUnclamped(m) ==
    LET h == m.tp.commandHistory
    IN IF Len(h) = 0 \/ m.tp.historyIndex < 0 THEN m
       ELSE [m EXCEPT !.tp.historyIndex = m.tp.historyIndex + 1]

getNextCommandFromHistory(m) ==
    LET h == m.tp.commandHistory
    IN IF Len(h) = 0 \/ m.tp.historyIndex < 0 THEN m
       ELSE [m EXCEPT !.tp.historyIndex = Min(m.tp.historyIndex + 1, Len(h))]

\* The entry at the navigation index, '' past the last one.
HistoryAt(m) ==
    LET h == m.tp.commandHistory
    IN IF m.tp.historyIndex >= Len(h) THEN <<>> ELSE h[m.tp.historyIndex + 1]

-----------------------------------------------------------------------------
(* Command dispatcher *)

editorCommands ==
    { <<"v","i","m">>, <<"v","i">>, <<"n","a","n","o">>, <<"e","m","a","c","s">>,
      <<"m","i","c","r","o">>, <<"n","e","o","v","i","m">>, <<"n","v","i","m">>,
      <<"e","d">>, <<"e","x">>, <<"v","i","e","w">>,
      <<"v","i","m","d","i","f","f">>, <<"g","v","i","m">>, <<"m","v","i","m">> }

isEditorCommand(command) ==
    \E e \in editorCommands : StartsWith(command, e \o <<" ">>) \/ command = e

\* The while loop of processCommand that skips the options of sudo: the index
\* (0-based) of the first token of args that is not an option.
RECURSIVE SudoSkip(_, _)
SudoSkip(args, i) ==
    IF i >= Len(args) THEN i
    ELSE LET t == args[i + 1]
         IN IF t = <<"-","-">> THEN i + 1
            ELSE IF t = <<"-","u">> \/ t = <<"-","-","u","s","e","r">>
                 THEN SudoSkip(args, i + 2)
            ELSE IF StartsWith(t, <<"-">>) THEN SudoSkip(args, i + 1)
            ELSE i

baseCommandOf(fullCommand) == Trim(SplitSpace(fullCommand, <<>>)[1])

argsOf(fullCommand) == FilterNonBlank(Tail(SplitSpace(fullCommand, <<>>)))

primaryCommandOf(fullCommand) ==
    LET baseCommand == baseCommandOf(fullCommand)
        args == argsOf(fullCommand)
        i == SudoSkip(args, 0)
    IN IF baseCommand = <<"s","u","d","o">>
       THEN IF i < Len(args) THEN args[i + 1] ELSE <<>>
       ELSE baseCommand

\* targetPath.replace(/\/\.\//g, '/')
RECURSIVE ReplaceDotSegments(_)
ReplaceDotSegments(s) ==
    IF s = <<>> THEN <<>>
    ELSE IF StartsWith(s, <<"/", ".", "/">>)
         THEN <<"/">> \o ReplaceDotSegments(SubSeq(s, 4, Len(s)))
    ELSE <<Head(s)>> \o ReplaceDotSegments(Tail(s))

\* The length of the longest prefix of s that holds no '/'.
RECURSIVE NameRun(_)
NameRun(s) == IF s = <<>> \/ Head(s) = "/" THEN 0 ELSE 1 + NameRun(Tail(s))

\* targetPath.replace(/\/[^\/]+\/\.\.\//g, '/')
RECURSIVE ReplaceParentSegments(_)
ReplaceParentSegments(s) ==
    IF s = <<>> THEN <<>>
    ELSE LET n == NameRun(Tail(s))
             rest == SubSeq(s, n + 2, Len(s))
         IN IF Head(s) = "/" /\ n >= 1 /\ StartsWith(rest, <<"/", ".", ".", "/">>)
            THEN <<"/">> \o ReplaceParentSegments(SubSeq(rest, 5, Len(rest)))
            ELSE <<Head(s)>> \o ReplaceParentSegments(Tail(s))

HOME == <<"$", "H", "O", "M", "E">>

\* The path handleCdCommand resolves before the round trip; args is the
\* argument list, of which only args[0] is read (undefined when there is none).
\* The result is [ok, path]: ok is FALSE where the code returns or throws
\* before the round trip.
cdTarget(t, args) ==
    IF args = <<>> THEN [ok |-> FALSE, why |-> "cd-failed", path |-> <<>>]
    ELSE LET path == args[1]
         IN IF path = <<"~">> THEN [ok |-> TRUE, why |-> "", path |-> HOME]
            ELSE IF path = <<"-">>
                 THEN IF t.lastWorkingDirectory = <<>>
                      THEN [ok |-> FALSE, why |-> "no-previous-directory", path |-> <<>>]
                      ELSE IF t.lastWorkingDirectory = <<"~">>
                           THEN [ok |-> TRUE, why |-> "", path |-> HOME]
                           ELSE [ok |-> TRUE, why |-> "", path |-> t.lastWorkingDirectory]
            ELSE IF ~StartsWith(path, <<"/">>)
                 THEN LET joined == IF t.currentWorkingDirectory = <<"~">>
                                    THEN HOME \o <<"/">> \o path
                                    ELSE t.currentWorkingDirectory \o <<"/">> \o path
                      IN [ok |-> TRUE, why |-> "",
                          path |-> ReplaceParentSegments(ReplaceDotSegments(joined))]
            ELSE [ok |-> TRUE, why |-> "", path |-> path]

\* handleCdCommand up to its await: the round trip is issued (and stays
\* pending), or the failure is reported at once.
handleCdCommand(m, args) ==
    LET r == cdTarget(m.tp, args)
    IN IF ~r.ok THEN Fire(m, Msg(r.why))
       ELSE IF ~m.tp.sshClient THEN Fire(m, Msg("cd-failed"))
       ELSE [m EXCEPT !.pend = Append(@, r.path)]

\* A transfer whose streams are piping: the isCompleted flag of its handlers,
\* whether the awaited promise is settled, whether the pipe has emitted
\* 'error', and how many success and failure messages it has fired so far.
NewTransfer(kind) ==
    [kind |-> kind, isCompleted |-> FALSE, settled |-> FALSE, errored |-> FALSE,
     ok |-> 0, fail |-> 0]

\* handleFileUpload up to its first await.
handleFileUpload(m, args) == [m EXCEPT !.xfer = Append(@, NewTransfer("rz"))]

\* handleFileDownload up to its first await.
handleFileDownload(m, args) ==
    IF args = <<>> THEN Fire(m, Msg("sz-usage"))
    ELSE [m EXCEPT !.xfer = Append(@, NewTransfer("sz"))]

processCommand(m, fullCommand) ==
    LET baseCommand == baseCommandOf(fullCommand)
        args == argsOf(fullCommand)
        primaryCommand == primaryCommandOf(fullCommand)
    IN IF StartsWith(baseCommand, <<"c","d">>) THEN handleCdCommand(m, args)
       ELSE IF StartsWith(primaryCommand, <<"r","z">>) THEN handleFileUpload(m, args)
       ELSE IF StartsWith(primaryCommand, <<"s","z">>) THEN handleFileDownload(m, args)
       ELSE IF StartsWith(baseCommand, <<"C","t","r","l","-","C">>)
            THEN StreamWrite(m, <<ETX>>)
       ELSE IF isEditorCommand(primaryCommand)
            THEN StreamWrite([m EXCEPT !.tp.isEditorMode = TRUE], fullCommand \o <<LF>>)
       ELSE IF m.tp.sshStream THEN StreamWrite(m, fullCommand \o <<LF>>)
       ELSE Fire(m, Msg("not-established"))

-----------------------------------------------------------------------------
(* Width model and prompt *)

getCharDisplayWidth(c) ==
    LET code == CharCode(c)
    IN IF (code >= 19968 /\ code <= 40959) \/ (code >= 13312 /\ code <= 19903)
       THEN 2 ELSE 1

RECURSIVE WidthsOf(_)
WidthsOf(text) ==
    IF text = <<>> THEN <<>>
    ELSE <<getCharDisplayWidth(Head(text))>> \o WidthsOf(Tail(text))

\* The widths of line `line`, [] when the entry is missing (the code creates it).
WidthsRow(t, line) ==
    LET row == IF line >= 0 /\ line < Len(t.lineDisplayWidths)
               THEN t.lineDisplayWidths[line + 1] ELSE <<UNDEF>>
    IN IF row = <<UNDEF>> THEN <<>> ELSE row

RECURSIVE InsertAll(_, _, _)
InsertAll(row, column, ws) ==
    IF ws = <<>> THEN row
    ELSE InsertAll(InsertAt(row, column, Head(ws)), column + 1, Tail(ws))

\* The loop `for i: insertCharWithWidthTracking(line, column + i, text[i])`
insertCharWithWidthTracking(m, line, column, text) ==
    [m EXCEPT !.tp.lineDisplayWidths =
        SetAtPad(@, line, InsertAll(WidthsRow(m.tp, line), column, WidthsOf(text)),
                 <<UNDEF>>)]

\* deleteCharWithWidthTracking removing the last recorded width of the line
\* whatever the column.
deleteCharWithWidthTrackingAtEnd(m, line, column) ==
    LET row == WidthsRow(m.tp, line)
    IN IF line < 0 \/ line >= Len(m.tp.lineDisplayWidths) \/ column >= Len(row)
       THEN m
       ELSE [m EXCEPT !.tp.lineDisplayWidths =
                SetAtPad(@, line, RemoveAt(row, Len(row) - 1), <<UNDEF>>)]

deleteCharWithWidthTracking(m, line, column) ==
    LET row == WidthsRow(m.tp, line)
    IN IF line < 0 \/ line >= Len(m.tp.lineDisplayWidths) \/ column >= Len(row)
       THEN m
       ELSE [m EXCEPT !.tp.lineDisplayWidths =
                SetAtPad(@, line, RemoveAt(row, column), <<UNDEF>>)]

RECURSIVE SumRange(_, _, _)
SumRange(row, from, to) ==
    IF from >= to THEN 0
    ELSE Plus(Get(row, from), SumRange(row, from + 1, to))

getDisplayWidthFrom(t, line, column) ==
    IF line < 0 \/ line >= Len(t.lineDisplayWidths) THEN 0
    ELSE SumRange(WidthsRow(t, line), column, Len(WidthsRow(t, line)))

\* getDisplayWidthTo counting characters instead of columns.
getDisplayWidthToInCharacters(t, line, column) ==
    IF line < 0 \/ line >= Len(t.lineDisplayWidths) THEN 0 ELSE column

getDisplayWidthTo(t, line, column) ==
    IF line < 0 \/ line >= Len(t.lineDisplayWidths) THEN 0
    ELSE SumRange(WidthsRow(t, line), 0, column)

\* getLineLength taking every line for empty.
getLineLengthEmpty(t, lineIndex) == 0

getLineLength(t, lineIndex) ==
    IF lineIndex < 0 \/ lineIndex >= Len(t.lineLengths) THEN 0
    ELSE t.lineLengths[lineIndex + 1]

getCurrentLineLength(t) == getLineLength(t, t.currentLine)

\* path.basename of a POSIX path: the last segment, trailing slashes dropped.
RECURSIVE DropTrailingSlashes(_)
DropTrailingSlashes(p) ==
    IF p # <<>> /\ p[Len(p)] = "/" THEN DropTrailingSlashes(SubSeq(p, 1, Len(p) - 1))
    ELSE p

RECURSIVE LastSegment(_)
LastSegment(p) ==
    IF p = <<>> \/ p[Len(p)] = "/" THEN <<>>
    ELSE Append(LastSegment(SubSeq(p, 1, Len(p) - 1)), p[Len(p)])


promptDir(t) ==
    IF t.systemType \in {"kali", "parrot", "blackarch"} THEN t.currentWorkingDirectory
    ELSE IF t.currentWorkingDirectory = <<"~">> THEN <<"~">>
    ELSE LastSegment(DropTrailingSlashes(t.currentWorkingDirectory))

isRootUser(t) == t.username = <<"r", "o", "o", "t">>

\* The text of the prompt, one element per character; "SGR" stands for one
\* colour sequence (ESC [ ... m), "SKULL" for the skull emoji.
getPrompt(t) ==
    LET promptSymbol == IF isRootUser(t) THEN "#" ELSE "$"
        userSymbol == IF isRootUser(t) THEN "SKULL" ELSE "@"
        boxed == <<"SGR", "BOX_DR", "BOX_H", "BOX_H", "(", "SGR">> \o t.username
                    \o <<userSymbol>> \o t.hostname \o <<"SGR", ")", "-", "[", "SGR">>
                    \o promptDir(t) \o <<"SGR", "]", CR, LF, "SGR", "BOX_UR", "BOX_H",
                                         "SGR", promptSymbol, "SGR", " ">>
        bracketed == <<"[">> \o t.username \o <<"@">> \o t.hostname \o <<" ">>
                        \o promptDir(t) \o <<"]", promptSymbol, " ">>
    IN CASE t.systemType \in {"kali", "parrot", "blackarch"} -> boxed
         [] t.systemType = "ubuntu" ->
               t.username \o <<"@">> \o t.hostname \o <<":">> \o promptDir(t)
                  \o <<promptSymbol, " ">>
         [] OTHER -> bracketed

calculatePromptVisibleLength(t) ==
    CASE t.systemType = "kali" -> 4
      [] t.systemType \in {"parrot", "blackarch"} -> 7
      [] t.systemType = "ubuntu" ->
            Len(t.username) + 1 + Len(t.hostname) + 1 + Len(promptDir(t)) + 1 + 1
      [] t.systemType \in {"centos", "debian"} ->
            1 + Len(t.username) + 1 + Len(t.hostname) + 1 + Len(promptDir(t)) + 1 + 1 + 1
      [] OTHER -> Len(t.username) + 1 + Len(t.hostname) + 2 + 1 + 1

-----------------------------------------------------------------------------
(* Cursor tracker *)

CRET == [k |-> "cr", n |-> 0, s |-> <<>>]

RECURSIVE FireAll(_, _)
FireAll(m, es) == IF es = <<>> THEN m ELSE FireAll(Fire(m, Head(es)), Tail(es))

\* The escape sequences moveToPosition fires for the clamped target.
moveEmits(t, targetLine, targetColumn) ==
    LET lineDiff == targetLine - t.currentLine
        columnDiff == Minus(targetColumn, t.currentColumn)
        displayWidthDiff == Minus(getDisplayWidthTo(t, targetLine, targetColumn),
                                  getDisplayWidthTo(t, t.currentLine, t.currentColumn))
        promptVisibleLength == calculatePromptVisibleLength(t)
        skipPrompt == IF promptVisibleLength > 0
                      THEN <<Csi("C", promptVisibleLength)>> ELSE <<>>
        toColumn == IF targetColumn # 0
                    THEN <<Csi("C", getDisplayWidthTo(t, targetLine, targetColumn))>>
                    ELSE <<>>
        vertical == IF lineDiff > 0 THEN <<Csi("B", lineDiff)>>
                    ELSE IF lineDiff < 0 THEN <<Csi("A", -lineDiff)>>
                    ELSE <<>>
        horizontal ==
            IF columnDiff # 0
            THEN IF columnDiff > 0
                 THEN (IF lineDiff < 0
                       THEN <<CRET>> \o (IF targetLine = 0 THEN skipPrompt
                                          ELSE <<Csi("C", 2)>>)
                       ELSE <<>>)
                      \o <<Csi("C", displayWidthDiff)>>
                 ELSE IF lineDiff > 0 THEN <<CRET, Csi("C", 2)>>
                      ELSE <<Csi("D", Minus(0, displayWidthDiff))>>
            ELSE IF t.currentLine = 0 /\ lineDiff > 0
                 THEN <<CRET, Csi("C", 2)>> \o toColumn
            ELSE IF lineDiff < 0 /\ targetLine = 0
                 THEN <<CRET>> \o skipPrompt \o toColumn
            ELSE <<CRET, Csi("C", 2)>> \o toColumn
    IN vertical \o horizontal

moveToPosition(m, line, column) ==
    IF ~m.tp.isMultiLine THEN m
    ELSE LET targetLine == Max(0, Min(line, Len(m.tp.lineStartIndexes) - 1))
             targetColumn == Max(0, Min(column, getLineLength(m.tp, targetLine)))
             m1 == FireAll(m, moveEmits(m.tp, targetLine, targetColumn))
         IN [m1 EXCEPT !.tp.currentLine = targetLine,
                       !.tp.currentColumn = targetColumn,
                       !.tp.cursorPosition = targetColumn]

handleCrossLineMovement(m, direction) ==
    LET t == m.tp
    IN IF ~t.isMultiLine THEN m
       ELSE CASE direction = "left" ->
                   IF t.currentColumn > 0
                   THEN moveToPosition(m, t.currentLine, t.currentColumn - 1)
                   ELSE IF t.currentLine > 0
                        THEN moveToPosition(m, t.currentLine - 1,
                                            getLineLength(t, t.currentLine - 1))
                   ELSE m
              [] direction = "right" ->
                   IF t.currentColumn < getLineLength(t, t.currentLine)
                   THEN moveToPosition(m, t.currentLine, t.currentColumn + 1)
                   ELSE IF t.currentLine < Len(t.lineStartIndexes) - 1
                        THEN moveToPosition(m, t.currentLine + 1, 0)
                   ELSE m
              [] direction = "up" ->
                   IF t.currentLine > 0
                   THEN LET targetColumn ==
                                Min(t.currentColumn, getLineLength(t, t.currentLine - 1))
                        IN moveToPosition(
                               [m EXCEPT !.tp.currentColumn = targetColumn,
                                         !.tp.cursorPosition = targetColumn],
                               t.currentLine - 1, targetColumn)
                   ELSE m
              [] OTHER ->
                   IF t.currentLine < Len(t.lineStartIndexes) - 1
                   THEN LET targetColumn ==
                                Min(t.currentColumn, getLineLength(t, t.currentLine + 1))
                        IN moveToPosition(
                               [m EXCEPT !.tp.currentColumn = targetColumn,
                                         !.tp.cursorPosition = targetColumn],
                               t.currentLine + 1, targetColumn)
                   ELSE m

-----------------------------------------------------------------------------
(* Edit buffer: rendering and line operations *)

EL == [k |-> "K", n |-> 0, s |-> <<>>]
NEWPROMPT == Txt(<<CR, LF, ">", " ">>)

renderRemainingLine(m) ==
    LET t == m.tp
        m1 == Fire(m, EL)
        start == Get(t.lineStartIndexes, t.currentLine)
        len == Get(t.lineLengths, t.currentLine)
    IN IF t.isMultiLine
       THEN IF IsNum(len) /\ t.currentColumn < len
            THEN FireAll(m1,
                   << Txt(SliceU(t.multiLineBuffer, Plus(start, t.currentColumn),
                                 Get(t.lineStartIndexes, t.currentLine + 1))),
                      Csi("D", getDisplayWidthFrom(t, t.currentLine, t.currentColumn)) >>)
            ELSE m1
       ELSE IF t.cursorPosition < Len(t.cmd)
            THEN FireAll(m1,
                   << Txt(SliceFrom(t.cmd, t.cursorPosition)),
                      Csi("D", getDisplayWidthFrom(t, 0, t.cursorPosition)) >>)
            ELSE m1

clearMultiLineDisplay(m) ==
    LET t == m.tp
        m1 == IF Len(t.lineLengths) - 1 > 0 /\ t.currentLine > 0
              THEN FireAll(m, <<Csi("A", t.currentLine), Csi("J", 0)>>)
              ELSE m
    IN IF t.isMultiLine
       THEN FireAll(m1, <<CRET, Csi("C", calculatePromptVisibleLength(t))>>)
       ELSE m

\* The loop of redrawFromLine from line i on; n is lineLengths.length.
RECURSIVE redrawLoop(_, _, _)
redrawLoop(m, i, n) ==
    IF i >= n THEN m
    ELSE LET t == m.tp
             len == t.lineLengths[i + 1]
             start == Get(t.lineStartIndexes, i)
             content == Txt(SliceU(t.multiLineBuffer, start, Plus(start, len)))
             m1 == FireAll(m, <<CRET, EL>> \o (IF i > 0 THEN <<Txt(<<">", " ">>)>> ELSE <<>>)
                              \o <<content>>)
             m2 == [m1 EXCEPT !.tp.currentColumn = len, !.tp.cursorPosition = len]
             m3 == IF i < n - 1
                   THEN [Fire(m2, Txt(<<CR, LF>>)) EXCEPT !.tp.currentLine = @ + 1]
                   ELSE m2
         IN redrawLoop(m3, i + 1, n)

redrawFromLine(m, startLine) == redrawLoop(m, startLine, Len(m.tp.lineLengths))

\* Every entry of arr from index `from` (0-based) on, shifted by d.
ShiftFrom(arr, from, d) ==
    [i \in 1..Len(arr) |-> IF i - 1 >= from THEN Plus(arr[i], d) ELSE arr[i]]

insertTextAtCursor(m, text) ==
    LET t == m.tp
    IN IF t.isMultiLine
       THEN LET currentPos == Plus(Get(t.lineStartIndexes, t.currentLine), t.currentColumn)
                m1 == [m EXCEPT !.tp.multiLineBuffer =
                          SliceU(@, 0, currentPos) \o text \o SliceFromU(@, currentPos)]
                m2 == insertCharWithWidthTracking(m1, t.currentLine, t.currentColumn, text)
                m3 == [m2 EXCEPT
                          !.tp.lineLengths =
                              SetAt(@, t.currentLine,
                                    Plus(Get(@, t.currentLine), Len(text))),
                          !.tp.currentColumn = @ + Len(text),
                          !.tp.cursorPosition = @ + Len(text),
                          !.tp.lineStartIndexes = ShiftFrom(@, t.currentLine + 1, Len(text))]
            IN renderRemainingLine(Fire(m3, Txt(text)))
       ELSE LET m1 == [m EXCEPT !.tp.cmd =
                          Slice(@, 0, t.cursorPosition) \o text \o SliceFrom(@, t.cursorPosition)]
                m2 == insertCharWithWidthTracking(m1, 0, t.cursorPosition, text)
                m3 == [m2 EXCEPT
                          !.tp.lineLengths = SetAt(@, 0, Plus(Get(@, 0), Len(text))),
                          !.tp.currentColumn = @ + Len(text),
                          !.tp.cursorPosition = @ + Len(text)]
            IN renderRemainingLine(Fire(m3, Txt(text)))

insertEmptyLineAfter(m) ==
    LET t == m.tp
    IN IF t.currentLine < 0 \/ t.currentLine >= Len(t.lineStartIndexes) - 1 THEN m
       ELSE LET currentLineEnd == Plus(Get(t.lineStartIndexes, t.currentLine),
                                       Get(t.lineLengths, t.currentLine))
                nextLineStart == Get(t.lineStartIndexes, t.currentLine + 1)
                newLineIndex == t.currentLine + 1
                m1 == [m EXCEPT
                          !.tp.multiLineBuffer =
                              SliceU(@, 0, currentLineEnd) \o SliceFromU(@, nextLineStart),
                          !.tp.lineStartIndexes = InsertAt(@, newLineIndex, currentLineEnd),
                          !.tp.lineLengths = InsertAt(@, newLineIndex, 0),
                          !.tp.lineDisplayWidths = InsertAt(@, newLineIndex, <<>>),
                          !.tp.currentLine = newLineIndex,
                          !.tp.currentColumn = 0,
                          !.tp.cursorPosition = 0]
                m2 == redrawFromLine(Fire(m1, Txt(<<LF>>)), newLineIndex)
                m3 == [m2 EXCEPT !.tp.currentColumn = 0, !.tp.cursorPosition = 0]
            IN moveToPosition(m3, newLineIndex, 0)

splitLineAtCursor(m) ==
    LET t == m.tp
    IN IF t.currentLine < 0 \/ t.currentLine > Len(t.lineLengths) - 1 THEN m
       ELSE LET currentLineStart == Get(t.lineStartIndexes, t.currentLine)
                splitPosition == Plus(currentLineStart, t.currentColumn)
                movedContent ==
                    SliceU(t.multiLineBuffer, splitPosition,
                           Plus(currentLineStart, Get(t.lineLengths, t.currentLine)))
                nextLineStart == Get(t.lineStartIndexes, t.currentLine + 1)
                afterContent == SliceFromU(t.multiLineBuffer, nextLineStart)
                newLineIndex == t.currentLine + 1
                m1 == [m EXCEPT
                          !.tp.multiLineBuffer =
                              SliceU(@, 0, splitPosition) \o movedContent \o afterContent,
                          !.tp.lineLengths =
                              InsertAt(SetAt(@, t.currentLine, t.currentColumn),
                                       newLineIndex, Len(movedContent)),
                          !.tp.lineDisplayWidths =
                              InsertAt(
                                  IF t.currentLine < Len(@) /\ @[t.currentLine + 1] # <<UNDEF>>
                                  THEN SetAtPad(@, t.currentLine,
                                                Slice(@[t.currentLine + 1], 0, t.currentColumn),
                                                <<UNDEF>>)
                                  ELSE @,
                                  newLineIndex, WidthsOf(movedContent)),
                          !.tp.lineStartIndexes = InsertAt(@, newLineIndex, splitPosition)]
                m2 == renderRemainingLine(m1)
                m3 == [m2 EXCEPT !.tp.currentLine = newLineIndex,
                                 !.tp.currentColumn = 0,
                                 !.tp.cursorPosition = 0]
                m4 == redrawFromLine(Fire(m3, Txt(<<LF>>)), newLineIndex)
            IN moveToPosition(m4, newLineIndex, Len(movedContent))

clearCurrentLineAndReturn(m, isRetuanLastLine) ==
    LET t == m.tp
    IN IF ~t.isMultiLine THEN m
       ELSE IF Len(t.lineLengths) = 1 \/ t.currentLine < 1 THEN m
       ELSE LET deleteLine == t.currentLine
                cacheEndLine == Len(t.lineLengths) - 1
                m1 == [m EXCEPT !.tp.lineLengths = RemoveAt(@, deleteLine),
                                !.tp.lineStartIndexes = RemoveAt(@, deleteLine),
                                !.tp.lineDisplayWidths = RemoveAt(@, deleteLine)]
                m2 == IF t.currentLine >= 1 /\ t.currentLine < cacheEndLine
                      THEN LET r == redrawFromLine(m1, deleteLine)
                           IN FireAll(r,
                                << Csi("E", 1), Csi("2K", 0), Csi("A", 1), CRET, Csi("C", 2),
                                   Csi("C", getDisplayWidthTo(r.tp, r.tp.currentLine,
                                                              r.tp.currentColumn)) >>)
                      ELSE Fire(m1, Csi("2K", 0))
                back == Get(m2.tp.lineLengths, deleteLine - 1)
                here == Get(m2.tp.lineLengths, deleteLine)
            IN IF isRetuanLastLine
               THEN moveToPosition([m2 EXCEPT !.tp.currentColumn = back,
                                              !.tp.cursorPosition = back],
                                   deleteLine - 1, back)
               ELSE moveToPosition([m2 EXCEPT !.tp.currentColumn = here,
                                              !.tp.cursorPosition = here],
                                   deleteLine, 0)

\* handleMultiLinePaste saving none of the lines after startLine.
savedLinesNone(t, i) == <<>>

\* The lines after startLine that handleMultiLinePaste saves before it cuts
\* the buffer, from line i on.
RECURSIVE savedLines(_, _)
savedLines(t, i) ==
    IF i >= Len(t.lineStartIndexes) THEN <<>>
    ELSE << SliceU(t.multiLineBuffer, Get(t.lineStartIndexes, i),
                   Get(t.lineStartIndexes, i + 1)) >> \o savedLines(t, i + 1)

\* The insertion loop of handleMultiLinePaste from index i (0-based) on.
RECURSIVE pasteLoop(_, _, _, _)
pasteLoop(m, lines, startLine, i) ==
    IF i >= Len(lines) THEN m
    ELSE LET line == startLine + i
             m1 == [m EXCEPT !.tp.currentLine = line]
             m2 == IF ~IsNum(Get(m1.tp.lineLengths, line))
                   THEN [m1 EXCEPT
                           !.tp.lineLengths = SetAt(@, line, 0),
                           !.tp.lineStartIndexes =
                               SetAt(@, line,
                                     IF line > 0
                                     THEN Plus(Get(@, line - 1),
                                               Get(m1.tp.lineLengths, line - 1))
                                     ELSE 0)]
                   ELSE m1
             m3 == insertTextAtCursor(m2, lines[i + 1])
             m4 == IF i < Len(lines) - 1
                   THEN [Fire(m3, NEWPROMPT) EXCEPT !.tp.currentColumn = 0,
                                                    !.tp.cursorPosition = 0]
                   ELSE m3
         IN pasteLoop(m4, lines, startLine, i + 1)

handleMultiLinePaste(m, lines) ==
    IF lines = <<>> THEN m
    ELSE LET t == m.tp
             startLine == t.currentLine
             finalPasteLine == startLine + Len(lines) - 1
             finalPasteCol == Len(lines[Len(lines)]) - 1
             all == lines \o savedLines(t, startLine + 1)
             length == Len(t.lineStartIndexes)
             m1 == [m EXCEPT
                      !.tp.multiLineBuffer =
                          SliceU(@, 0, Get(t.lineStartIndexes, startLine + 1)),
                      !.tp.lineStartIndexes =
                          RemoveRange(@, startLine + 1, length - startLine - 1),
                      !.tp.lineLengths =
                          RemoveRange(@, startLine + 1, length - startLine - 1),
                      !.tp.lineDisplayWidths =
                          RemoveRange(@, startLine + 1, length - startLine - 1)]
         IN moveToPosition(pasteLoop(m1, all, startLine, 0), finalPasteLine, finalPasteCol)

-----------------------------------------------------------------------------
(* Editor pass-through *)

exitCommands ==
    { <<":","q">>, <<":","q","!">>, <<":","w","q">>, <<":","x">>,
      <<":","w","q","!">>, <<":","q","a">>, <<":","q","a","!">> }

\* detectEditorExitCommand accepting only a carriage return after the command.
detectEditorExitCommandOnReturn(t) ==
    LET buffer == t.editorBuffer
    IN \/ \E c \in exitCommands : EndsWith(buffer, c \o <<CR>>)
       \/ EndsWith(buffer, <<"Z","Z">>)
       \/ EndsWith(buffer, <<"Z","Q">>)
       \/ buffer = <<"q">>
       \/ Includes(buffer, <<ETX>>)

detectEditorExitCommand(t) ==
    LET buffer == t.editorBuffer
    IN \/ \E c \in exitCommands : \E e \in {<<CR, LF>>, <<CR>>, <<LF>>} : EndsWith(buffer, c \o e)
       \/ EndsWith(buffer, <<"Z","Z">>)
       \/ EndsWith(buffer, <<"Z","Q">>)
       \/ Includes(buffer, <<"^","Q">>)
       \/ Includes(buffer, <<"^","X">>)
       \/ buffer = <<"q">>
       \/ Includes(buffer, <<"^","C">>)
       \/ Includes(buffer, <<ETX>>)

\* handleInputEditor consuming the chunk that ends the pass-through.
handleInputEditorConsumingExit(m, data) ==
    LET m1 == [m EXCEPT !.tp.editorBuffer = @ \o data]
    IN IF detectEditorExitCommand(m1.tp) THEN resetTerminalState(m1)
       ELSE IF m1.tp.sshStream THEN [m1 EXCEPT !.w = Append(@, data)] ELSE m1

handleInputEditor(m, data) ==
    LET m1 == [m EXCEPT !.tp.editorBuffer = @ \o data]
        m2 == IF detectEditorExitCommand(m1.tp) THEN resetTerminalState(m1) ELSE m1
    IN StreamWrite(m2, data)

-----------------------------------------------------------------------------
(* Input classifier: the branches of handleInput *)

PASTE_START == <<ESC, "[", "2", "0", "0", "~">>
PASTE_END == <<ESC, "[", "2", "0", "1", "~">>
KEY_INS == <<ESC, "[", "2", "~">>
KEY_DEL == <<ESC, "[", "3", "~">>
KEY_UP == {<<ESC, "[", "A">>, <<ESC, "O", "A">>}
KEY_DOWN == {<<ESC, "[", "B">>, <<ESC, "O", "B">>}
KEY_LEFT == {<<ESC, "[", "D">>, <<ESC, "O", "D">>}
KEY_RIGHT == {<<ESC, "[", "C">>, <<ESC, "O", "C">>}
KEY_END == {<<ESC, "O", "F">>, <<ESC, "[", "F">>, <<ESC, "[", "4", "~">>}
KEY_HOME == {<<ESC, "O", "H">>, <<ESC, "[", "H">>, <<ESC, "[", "1", "~">>}
KEY_PAGE == {<<ESC, "[", "5", "~">>, <<ESC, "[", "6", "~">>}

\* A TypeError thrown inside handleInput: the call ends where it stands.
Throw(m) == [m EXCEPT !.threw = TRUE]

handleInputPaste(m, data) ==
    LET pasteContent == Slice(data, 6, Len(data) - 6)
    IN IF HasNewline(pasteContent)
       THEN handleMultiLinePaste([m EXCEPT !.tp.isMultiLine = TRUE],
                                 SplitLines(pasteContent, <<>>))
       ELSE insertTextAtCursor(m, pasteContent)

\* openNewLine storing a line break in the buffer at the continuation.
openNewLineStoringBreak(m) ==
    LET line == m.tp.currentLine + 1
        m1 == [m EXCEPT !.tp.multiLineBuffer = @ \o <<LF>>,
                        !.tp.cmd = <<>>,
                        !.tp.currentLine = line,
                        !.tp.currentColumn = 0,
                        !.tp.cursorPosition = 0]
        m2 == [m1 EXCEPT
                 !.tp.lineStartIndexes = SetAt(@, line, Len(m1.tp.multiLineBuffer)),
                 !.tp.lineLengths = SetAt(@, line, 0),
                 !.tp.lineDisplayWidths = SetAtPad(@, line, <<>>, <<UNDEF>>)]
    IN Fire(m2, [k |-> "text", n |-> 0, s |-> <<CR, LF, ">", " ">>])

\* The continuation marker opens a new last line.
openNewLine(m) ==
    LET line == m.tp.currentLine + 1
        m1 == [m EXCEPT !.tp.cmd = <<>>,
                        !.tp.currentLine = line,
                        !.tp.currentColumn = 0,
                        !.tp.cursorPosition = 0]
        m2 == [m1 EXCEPT
                 !.tp.lineStartIndexes = SetAt(@, line, Len(m1.tp.multiLineBuffer)),
                 !.tp.lineLengths = SetAt(@, line, 0),
                 !.tp.lineDisplayWidths = SetAtPad(@, line, <<>>, <<UNDEF>>)]
    IN Fire(m2, NEWPROMPT)

handleInputContinuation(m) ==
    LET m0 == [m EXCEPT !.tp.isMultiLine = TRUE]
        t == m0.tp
    IN IF Len(t.lineLengths) = 0
       THEN openNewLine([m0 EXCEPT !.tp.multiLineBuffer = @ \o t.cmd])
       ELSE IF t.currentLine < Len(t.lineLengths) - 1
            THEN IF t.currentColumn = getCurrentLineLength(t)
                 THEN insertEmptyLineAfter(m0)
                 ELSE splitLineAtCursor(m0)
       ELSE IF t.currentColumn = getCurrentLineLength(t)
            THEN openNewLine(m0)
            ELSE splitLineAtCursor(m0)

isSpecialKey(data) ==
    \/ StartsWith(data, <<ESC>>) /\ ~StartsWith(data, KEY_INS)
    \/ CharCode(data[1]) \in {127, 3, 8, 9, 12, 13}

\* Text typed in multi-line mode (data is not a special key).
handleInputMultiLineText(m, data) ==
    LET t == m.tp
        pos == Plus(Get(t.lineStartIndexes, t.currentLine), t.currentColumn)
        tracked == insertCharWithWidthTracking(Fire(m, Txt(data)),
                                               t.currentLine, t.currentColumn, data)
        spliced == [tracked EXCEPT
                      !.tp.multiLineBuffer =
                          SliceU(@, 0, pos) \o data \o SliceFromU(@, pos),
                      !.tp.lineLengths =
                          SetAt(@, t.currentLine, Plus(Get(@, t.currentLine), Len(data))),
                      !.tp.currentColumn = @ + Len(data),
                      !.tp.cursorPosition = @ + Len(data)]
    IN IF HasNewline(data)
       THEN handleMultiLinePaste([m EXCEPT !.tp.isMultiLine = TRUE],
                                 SplitLines(data, <<>>))
       ELSE IF t.currentLine < Len(t.lineLengths) - 1
            THEN renderRemainingLine(
                     [spliced EXCEPT
                        !.tp.lineStartIndexes = ShiftFrom(@, t.currentLine + 1, 1)])
       ELSE IF t.currentColumn = getCurrentLineLength(t)
            THEN LET appended == [tracked EXCEPT
                                    !.tp.multiLineBuffer = @ \o data,
                                    !.tp.currentColumn = @ + Len(data),
                                    !.tp.cursorPosition = @ + Len(data)]
                 IN [appended EXCEPT
                       !.tp.lineLengths =
                           SetAt(@, t.currentLine,
                                 Minus(Len(appended.tp.multiLineBuffer),
                                       Get(t.lineStartIndexes, t.currentLine)))]
       ELSE renderRemainingLine(spliced)

\* handleInputCtrlC resetting the state only on a single line.
handleInputCtrlCSingleLineReset(m) ==
    LET m1 == IF m.tp.isMultiLine THEN clearMultiLineDisplay(m) ELSE m
        m2 == processCommand(m1, <<"C","t","r","l","-","C">>)
    IN IF m.tp.isMultiLine THEN m2 ELSE resetTerminalState(m2)

handleInputCtrlC(m) ==
    LET m1 == IF m.tp.isMultiLine THEN clearMultiLineDisplay(m) ELSE m
    IN resetTerminalState(processCommand(m1, <<"C","t","r","l","-","C">>))

handleInputEnter(m) ==
    LET t == m.tp
        lastLine == Len(t.lineLengths) - 1
        m1 == IF t.isMultiLine
              THEN LET moved == IF t.currentLine < lastLine
                                THEN moveToPosition(m, lastLine, t.lineLengths[lastLine + 1])
                                ELSE m
                       text == Trim(t.multiLineBuffer)
                   IN addToHistory(processCommand(Fire(moved, Txt(<<CR, LF>>)), text), text)
              ELSE addToHistory(processCommand(Fire(m, Txt(<<CR, LF>>)), t.cmd), t.cmd)
    IN IF ~m1.tp.isEditorMode THEN resetTerminalState(m1) ELSE m1

handleInputBackspace(m) ==
    LET t == m.tp
        start == Get(t.lineStartIndexes, t.currentLine)
        len == Get(t.lineLengths, t.currentLine)
        at == Plus(start, t.currentColumn)
        \* deletes the character before the cursor of the multi-line buffer
        deleteBefore ==
            IF ~IsNum(at) \/ at - 1 < 0 \/ at - 1 >= Len(t.multiLineBuffer) THEN Throw(m)
            ELSE LET charWidth == getCharDisplayWidth(t.multiLineBuffer[at])
                     m1 == [m EXCEPT !.tp.multiLineBuffer =
                                        Slice(@, 0, at - 1) \o SliceFrom(@, at)]
                     m2 == deleteCharWithWidthTracking(m1, t.currentLine, t.currentColumn - 1)
                     m3 == [m2 EXCEPT
                              !.tp.currentColumn = @ - 1,
                              !.tp.lineLengths =
                                  SetAt(@, t.currentLine, Minus(Get(@, t.currentLine), 1)),
                              !.tp.lineStartIndexes = ShiftFrom(@, t.currentLine + 1, -1)]
                 IN renderRemainingLine(
                        FireAll(m3, <<Csi("D", charWidth), Csi("X", charWidth)>>))
    IN IF t.isMultiLine
       THEN IF Len(t.multiLineBuffer) > 0
            THEN IF t.currentColumn > 0 /\ t.currentColumn < getCurrentLineLength(t)
                 THEN deleteBefore
                 ELSE IF t.currentColumn = 0 /\ t.currentLine > 0 /\ len = 0
                      THEN clearCurrentLineAndReturn(m, TRUE)
                 ELSE IF t.currentColumn = 0 /\ t.currentLine >= 0 /\ len # 0
                      THEN m
                 ELSE deleteBefore
            ELSE m
       ELSE IF Len(t.cmd) > 0 /\ t.cursorPosition > 0
            THEN IF t.cursorPosition > Len(t.cmd) THEN Throw(m)
                 ELSE LET charWidth == getCharDisplayWidth(t.cmd[t.cursorPosition])
                          cut == Slice(t.cmd, 0, t.cursorPosition - 1)
                                    \o SliceFrom(t.cmd, t.cursorPosition)
                          m1 == [m EXCEPT !.tp.cmd = cut, !.tp.multiLineBuffer = cut]
                          m2 == deleteCharWithWidthTracking(m1, 0, t.cursorPosition - 1)
                          m3 == [m2 EXCEPT
                                   !.tp.cursorPosition = @ - 1,
                                   !.tp.currentColumn = @ - 1,
                                   !.tp.lineLengths = SetAt(@, 0, Minus(Get(@, 0), 1))]
                      IN renderRemainingLine(
                             FireAll(m3, <<Csi("D", charWidth), Csi("X", charWidth)>>))
            ELSE m

\* Up and Down in single-line mode: the buffer takes the history entry.
recall(m, moved, found) ==
    IF ~found THEN moved
    ELSE LET entry == HistoryAt(moved)
             m1 == IF Len(m.tp.cmd) > 0 THEN Fire(moved, Csi("D", Len(m.tp.cmd))) ELSE moved
             m2 == FireAll(m1, <<EL, Txt(entry)>>)
         IN [m2 EXCEPT !.tp.cmd = entry, !.tp.cursorPosition = Len(entry)]

handleInputDelete(m) ==
    LET t == m.tp
        len == Get(t.lineLengths, t.currentLine)
        lastLine == Len(t.lineLengths) - 1
        at == Plus(Get(t.lineStartIndexes, t.currentLine), t.currentColumn)
    IN IF t.isMultiLine
       THEN IF t.currentColumn >= 0 /\ IsNum(len) /\ t.currentColumn < len /\ len > 0
            THEN LET m1 == deleteCharWithWidthTracking(m, t.currentLine, t.currentColumn)
                     m2 == [m1 EXCEPT
                              !.tp.multiLineBuffer =
                                  SliceU(@, 0, at) \o SliceFromU(@, Plus(at, 1)),
                              !.tp.lineLengths = SetAt(@, t.currentLine, len - 1),
                              !.tp.lineStartIndexes = ShiftFrom(@, t.currentLine + 1, -1)]
                 IN renderRemainingLine(Fire(m2, Csi("P", 0)))
            ELSE IF t.currentColumn = 0 /\ len = 0 /\ t.currentLine + 1 <= lastLine
                 THEN clearCurrentLineAndReturn(m, FALSE)
            ELSE IF /\ t.currentColumn = len
                    /\ t.currentColumn > 0
                    /\ t.currentLine + 1 <= lastLine
                    /\ Get(t.lineLengths, t.currentLine + 1) = 0
                 THEN clearCurrentLineAndReturn(
                          moveToPosition(m, t.currentLine + 1,
                                         Get(t.lineLengths, t.currentLine + 1)),
                          TRUE)
            ELSE IF t.currentColumn = 0 /\ t.currentLine = lastLine /\ len = 0
                 THEN clearCurrentLineAndReturn(m, TRUE)
            ELSE m
       ELSE IF Len(t.cmd) > 0 /\ t.cursorPosition < Len(t.cmd)
            THEN LET m1 == deleteCharWithWidthTracking(m, 0, t.cursorPosition)
                     cut == Slice(t.cmd, 0, t.cursorPosition)
                               \o SliceFrom(t.cmd, t.cursorPosition + 1)
                     m2 == [m1 EXCEPT
                              !.tp.cmd = cut,
                              !.tp.multiLineBuffer = cut,
                              !.tp.lineLengths = SetAt(@, 0, Minus(Get(@, 0), 1))]
                 IN renderRemainingLine(Fire(m2, Csi("P", 0)))
            ELSE m

-----------------------------------------------------------------------------
(* Completion resolver *)

commonCommands ==
    << <<"l","s">>, <<"c","d">>, <<"p","w","d">>, <<"c","a","t">>,
       <<"m","k","d","i","r">>, <<"r","m">>, <<"c","p">>, <<"m","v">>,
       <<"s","z">>, <<"r","z">>, <<"v","i","m">>, <<"n","a","n","o">>,
       <<"g","r","e","p">>, <<"f","i","n","d">>, <<"c","h","m","o","d">>,
       <<"s","s","h">>, <<"s","c","p">>, <<"t","a","r">>, <<"p","s">>,
       <<"t","o","p">>, <<"k","i","l","l">>, <<"d","f">>, <<"d","u">>,
       <<"s","y","s","t","e","m","c","t","l">>, <<"g","i","t">>,
       <<"d","o","c","k","e","r">>, <<"n","p","m">>, <<"y","a","r","n">>,
       <<"p","i","p">> >>

systemctlSubCommands ==
    << <<"s","t","a","r","t">>, <<"s","t","o","p">>, <<"r","e","s","t","a","r","t">>,
       <<"s","t","a","t","u","s">>, <<"e","n","a","b","l","e">>,
       <<"d","i","s","a","b","l","e">>, <<"l","i","s","t","-","u","n","i","t","s">>,
       <<"r","e","l","o","a","d">> >>

RECURSIVE FilterPrefix(_, _)
FilterPrefix(names, prefix) ==
    IF names = <<>> THEN <<>>
    ELSE (IF StartsWith(Head(names), prefix) THEN <<Head(names)>> ELSE <<>>)
         \o FilterPrefix(Tail(names), prefix)

\* The length of the longest prefix of s made of white space.
RECURSIVE SpaceRun(_)
SpaceRun(s) == IF s = <<>> \/ ~IsSpace(Head(s)) THEN 0 ELSE 1 + SpaceRun(Tail(s))

\* The index (1-based) of the last LF among the first n characters of s, 0 if none.
RECURSIVE LastLF(_, _)
LastLF(s, n) == IF n = 0 THEN 0 ELSE IF s[n] = LF THEN n ELSE LastLF(s, n - 1)

\* ctx.replace(/\\\s*\n/g, ' ')
RECURSIVE ReplaceContinuations(_)
ReplaceContinuations(s) ==
    IF s = <<>> THEN <<>>
    ELSE LET rest == Tail(s)
             k == LastLF(rest, SpaceRun(rest))
         IN IF Head(s) = BSL /\ k > 0
            THEN <<" ">> \o ReplaceContinuations(SubSeq(rest, k + 1, Len(rest)))
            ELSE <<Head(s)>> \o ReplaceContinuations(rest)

\* ctx.replace(/\n/g, ' ')
ReplaceNewlines(s) == [i \in 1..Len(s) |-> IF s[i] = LF THEN " " ELSE s[i]]

\* The words and the last word getTabSuggestions works on.
tabWords(input, fullContext) ==
    LET contextToAnalyze == IF fullContext # <<>> THEN fullContext ELSE input
        singleLine == Trim(ReplaceNewlines(ReplaceContinuations(contextToAnalyze)))
        all == SplitWs(singleLine, <<>>, FALSE)
    IN [words |-> SubSeq(all, 1, Len(all) - 1), lastWord |-> all[Len(all)]]

\* getTabSuggestions up to its first remote call: the suggestions when no
\* remote call is needed, or the prefix the remote listing is filtered by.
getTabSuggestions(t, input, fullContext) ==
    LET w == tabWords(input, fullContext)
    IN IF ~t.sshClient THEN [remote |-> FALSE, list |-> <<>>, lastWord |-> <<>>]
       ELSE IF Len(w.words) = 0
            THEN [remote |-> FALSE, list |-> FilterPrefix(commonCommands, w.lastWord),
                  lastWord |-> w.lastWord]
       ELSE IF w.words[1] = <<"s","y","s","t","e","m","c","t","l">> /\ Len(w.words) > 1
            THEN [remote |-> FALSE, list |-> FilterPrefix(systemctlSubCommands, w.lastWord),
                  lastWord |-> w.lastWord]
       ELSE [remote |-> TRUE, list |-> <<>>, lastWord |-> w.lastWord]

RECURSIVE JoinNames(_)
JoinNames(names) ==
    IF names = <<>> THEN <<>>
    ELSE IF Len(names) = 1 THEN Head(names)
    ELSE Head(names) \o <<" ", " ", " ", " ">> \o JoinNames(Tail(names))

PROMPT == [k |-> "prompt", n |-> 0, s |-> <<>>]

RECURSIVE fireLines(_, _)
fireLines(m, index) ==
    IF index >= Len(m.tp.lineLengths) THEN m
    ELSE LET start == Get(m.tp.lineStartIndexes, index)
             m1 == Fire(m, Txt(SliceU(m.tp.multiLineBuffer, start,
                                      Plus(start, m.tp.lineLengths[index + 1]))))
         IN fireLines(IF index < m.tp.currentLine THEN Fire(m1, Txt(<<CR, LF>>)) ELSE m1,
                      index + 1)

\* The Tab branch of multi-line mode once the suggestions are known;
\* linePreviousContent was read before the suggestions were asked for.
tabApplyMulti(m, linePreviousContent, suggestions) ==
    LET t == m.tp
        at == Plus(Get(t.lineStartIndexes, t.currentLine), t.currentColumn)
    IN IF Len(suggestions) = 1
       THEN LET fixword == SliceFrom(suggestions[1], Len(linePreviousContent)) \o <<" ">>
                m1 == insertCharWithWidthTracking(m, t.currentLine, t.currentColumn, fixword)
                m2 == [m1 EXCEPT
                         !.tp.multiLineBuffer =
                             SliceU(@, 0, at) \o fixword \o SliceFromU(@, at),
                         !.tp.lineLengths =
                             SetAt(@, t.currentLine,
                                   Plus(Get(@, t.currentLine), Len(fixword))),
                         !.tp.currentColumn = @ + Len(fixword),
                         !.tp.cursorPosition = @ + Len(fixword),
                         !.tp.lineStartIndexes =
                             ShiftFrom(@, t.currentLine + 1, Len(fixword))]
            IN Fire(m2, Txt(fixword))
       ELSE IF Len(suggestions) > 1
            THEN fireLines(FireAll(m, << Txt(<<CR, LF>> \o JoinNames(suggestions)
                                             \o <<CR, LF>>), PROMPT >>), 0)
       ELSE m

\* The Tab branch of single-line mode once the suggestions are known.
tabApplySingle(m, suggestions) ==
    LET t == m.tp
        pieces == SplitWs(t.cmd, <<>>, FALSE)
        lastWord == pieces[Len(pieces)]
    IN IF Len(suggestions) = 1
       THEN LET fixword == SliceFrom(suggestions[1], Len(lastWord))
                m1 == insertCharWithWidthTracking(m, 0, t.cursorPosition, fixword)
                m2 == [m1 EXCEPT
                         !.tp.cmd = @ \o fixword,
                         !.tp.cursorPosition = Len(t.cmd) + Len(fixword),
                         !.tp.currentColumn = Len(t.cmd) + Len(fixword),
                         !.tp.lineLengths = SetAt(@, 0, Plus(Get(@, 0), Len(fixword)))]
            IN Fire(m2, Txt(fixword))
       ELSE IF Len(suggestions) > 1
            THEN FireAll(m, << Txt(<<CR, LF>> \o JoinNames(suggestions) \o <<CR, LF>>),
                               PROMPT, Txt(t.cmd) >>)
       ELSE m

handleInputTab(m) ==
    LET t == m.tp
        at == Plus(Get(t.lineStartIndexes, t.currentLine), t.currentColumn)
        linePreviousContent == SliceU(t.multiLineBuffer,
                                      Get(t.lineStartIndexes, t.currentLine), at)
        tabContents == SliceU(t.multiLineBuffer, 0, at)
        q == IF t.isMultiLine THEN getTabSuggestions(t, linePreviousContent, tabContents)
             ELSE getTabSuggestions(t, t.cmd, <<>>)
    IN IF q.remote
       THEN [m EXCEPT !.tabq = Append(@, [multi |-> t.isMultiLine,
                                          linePreviousContent |->
                                              IF t.isMultiLine THEN linePreviousContent
                                              ELSE <<>>,
                                          lastWord |-> q.lastWord])]
       ELSE IF t.isMultiLine THEN tabApplyMulti(m, linePreviousContent, q.list)
       ELSE tabApplySingle(m, q.list)

-----------------------------------------------------------------------------
(* handleInput *)

handleInputEscape(m, data) ==
    LET t == m.tp
    IN CASE data = <<ESC>> -> resetTerminalState(m)
         [] data \in KEY_UP ->
              IF t.isMultiLine THEN handleCrossLineMovement(m, "up")
              ELSE recall(m, getPrevCommandFromHistory(m), Len(t.commandHistory) # 0)
         [] data \in KEY_DOWN ->
              IF t.isMultiLine THEN handleCrossLineMovement(m, "down")
              ELSE recall(m, getNextCommandFromHistory(m),
                          ~(Len(t.commandHistory) = 0 \/ t.historyIndex < 0))
         [] data \in KEY_LEFT ->
              IF t.isMultiLine THEN handleCrossLineMovement(m, "left")
              ELSE IF t.cursorPosition > 0
                   THEN IF t.cursorPosition > Len(t.cmd) THEN Throw(m)
                        ELSE Fire([m EXCEPT !.tp.cursorPosition = @ - 1,
                                            !.tp.currentColumn = @ - 1],
                                  Csi("D", getCharDisplayWidth(t.cmd[t.cursorPosition])))
                   ELSE m
         [] data \in KEY_RIGHT ->
              IF t.isMultiLine THEN handleCrossLineMovement(m, "right")
              ELSE IF t.cursorPosition < Len(t.cmd)
                   THEN Fire([m EXCEPT !.tp.cursorPosition = @ + 1,
                                       !.tp.currentColumn = @ + 1],
                             Csi("C", getCharDisplayWidth(t.cmd[t.cursorPosition + 1])))
                   ELSE m
         [] data \in KEY_END ->
              IF t.isMultiLine
              THEN moveToPosition(m, t.currentLine, getCurrentLineLength(t))
              ELSE LET displayWidthToMove == getDisplayWidthFrom(t, 0, t.cursorPosition)
                       m1 == IF displayWidthToMove > 0
                             THEN Fire(m, Csi("C", displayWidthToMove)) ELSE m
                   IN [m1 EXCEPT !.tp.cursorPosition = Len(t.cmd),
                                 !.tp.currentColumn = Len(t.cmd)]
         [] data \in KEY_HOME ->
              IF t.isMultiLine THEN moveToPosition(m, t.currentLine, 0)
              ELSE LET displayWidthToMove == getDisplayWidthTo(t, 0, t.cursorPosition)
                       m1 == IF displayWidthToMove > 0
                             THEN Fire(m, Csi("D", displayWidthToMove)) ELSE m
                   IN [m1 EXCEPT !.tp.cursorPosition = 0, !.tp.currentColumn = 0]
         [] data = KEY_INS ->
              Fire([m EXCEPT !.tp.isInsertMode = ~@],
                   Csi(IF t.isInsertMode THEN "2 q" ELSE "4 q", 0))
         [] data = KEY_DEL -> handleInputDelete(m)
         [] data \in KEY_PAGE -> Fire(m, Txt(data))
         [] OTHER -> m

handleInputClearScreen(m) ==
    Fire(resetTerminalState(Fire(m, Csi("2J;H", 0))), PROMPT)

\* The default case of the switch: text into the single-line buffer.
handleInputText(m, data) ==
    LET t == m.tp
        tracked(x) == insertCharWithWidthTracking(x, 0, t.cursorPosition, data)
        advance(x) ==
            [x EXCEPT
               !.tp.cursorPosition = @ + Len(data),
               !.tp.currentColumn = @ + Len(data),
               !.tp.lineLengths =
                   SetAt(@, t.currentLine, Plus(Get(@, t.currentLine), Len(data))),
               !.tp.lineStartIndexes = SetAt(@, t.currentLine, 0)]
    IN IF t.cursorPosition < Len(t.cmd)
       THEN LET text == Slice(t.cmd, 0, t.cursorPosition) \o data
                           \o SliceFrom(t.cmd, t.cursorPosition)
                m1 == [m EXCEPT !.tp.cmd = text, !.tp.multiLineBuffer = text]
            IN renderRemainingLine(Fire(advance(tracked(m1)), Txt(data)))
       ELSE IF HasNewline(data)
            THEN handleMultiLinePaste([m EXCEPT !.tp.isMultiLine = TRUE],
                                      SplitLines(data, <<>>))
       ELSE LET m1 == [m EXCEPT !.tp.cmd = @ \o data, !.tp.multiLineBuffer = @ \o data]
            IN Fire(advance(tracked(m1)), Txt(data))

handleInput(m, data) ==
    LET code == CharCode(data[1])
    IN IF m.tp.isEditorMode THEN handleInputEditor(m, data)
       ELSE IF StartsWith(data, PASTE_START) /\ EndsWith(data, PASTE_END)
            THEN handleInputPaste(m, data)
       ELSE IF data = <<BSL>> THEN handleInputContinuation(m)
       ELSE IF m.tp.isMultiLine /\ ~isSpecialKey(data)
            THEN handleInputMultiLineText(m, data)
       ELSE CASE code = 3 -> handleInputCtrlC(m)
              [] code = 13 -> handleInputEnter(m)
              [] code = 127 -> handleInputBackspace(m)
              [] code = 27 -> handleInputEscape(m, data)
              [] code = 9 -> handleInputTab(m)
              [] code = 12 -> handleInputClearScreen(m)
              [] OTHER -> handleInputText(m, data)

-----------------------------------------------------------------------------
(* Steps *)

\* The object and its collaborators as one value the handlers transform:
\* w and o collect what the step writes to the stream and to the terminal.
Machine == [tp |-> tp, pend |-> pend, xfer |-> xfer, tabq |-> tabq,
            w |-> <<>>, o |-> <<>>, threw |-> FALSE]

WithinBounds(m) ==
    /\ Len(m.tp.cmd) <= MaxBuf
    /\ Len(m.tp.multiLineBuffer) <= MaxBuf
    /\ Len(m.tp.lineLengths) <= MaxLines
    /\ m.tp.cursorPosition <= MaxBuf
    /\ \A i \in 1..Len(m.tp.lineLengths) : m.tp.lineLengths[i] <= MaxBuf
    /\ \A i \in 1..Len(m.tp.lineDisplayWidths) : Len(m.tp.lineDisplayWidths[i]) <= MaxBuf
    /\ Len(m.tp.commandHistory) <= MaxHist
    /\ Len(m.tp.editorBuffer) <= MaxEditorBuf
    /\ Len(m.pend) <= MaxPend
    /\ Len(m.xfer) <= MaxXfer
    /\ Len(m.tabq) <= MaxPend

Step(m, op, data, ch) ==
    /\ WithinBounds(m)
    /\ tp' = m.tp
    /\ pend' = m.pend
    /\ xfer' = m.xfer
    /\ tabq' = m.tabq
    /\ chan' = ch
    /\ pre' = tp
    /\ last' = [op |-> op, data |-> data, threw |-> m.threw,
                 pending |-> Len(pend) + Len(tabq)]
    /\ writes' = m.w
    /\ sink' = m.o

Init ==
    /\ tp = InitTp
    /\ pend = <<>>
    /\ chan = "none"
    /\ xfer = <<>>
    /\ tabq = <<>>
    /\ pre = InitTp
    /\ last = [op |-> "new", data |-> <<>>, threw |-> FALSE, pending |-> 0]
    /\ writes = <<>>
    /\ sink = <<>>

\* The host calls open(): connectSsh creates the client and connects.
Open ==
    /\ chan = "none"
    /\ Step(Fire([Machine EXCEPT !.tp.sshClient = TRUE], Msg("connecting")),
            "open", <<>>, "connecting")

\* The client's 'ready' event: the shell is requested.
Ready ==
    /\ chan = "connecting"
    /\ Step(Fire(Machine, Msg("established")), "ready", <<>>, "ready")

\* The shell callback without error: the stream is stored, its handlers attached.
ShellOpened ==
    /\ chan = "ready"
    /\ Step([Machine EXCEPT !.tp.sshStream = TRUE], "shell", <<>>, "open")

\* The shell callback with an error.
ShellError ==
    /\ chan = "ready"
    /\ Step(Fire(Machine, Msg("shell-error")), "shellError", <<>>, "failed")

\* The client's 'error' event.
ClientError ==
    /\ chan = "connecting"
    /\ Step(Fire(Machine, Msg("ssh-error")), "clientError", <<>>, "failed")

ALT_ENTER == <<ESC, "[", "?", "1", "0", "4", "9", "h">>
ALT_EXIT == <<ESC, "[", "?", "1", "0", "4", "9", "l">>

\* The stream's 'data' handler.
onStreamData(m, dataStr) ==
    LET m1 == IF Includes(dataStr, ALT_ENTER) THEN [m EXCEPT !.tp.isEditorMode = TRUE] ELSE m
        m2 == IF Includes(dataStr, ALT_EXIT) THEN [m1 EXCEPT !.tp.isEditorMode = FALSE] ELSE m1
    IN Fire(m2, Txt(dataStr))

\* close(): both ends are ended and the close event fires.
close(m) == Fire(m, Msg("closeEmitter"))

\* The stream's 'close' handler.
onStreamClose(m) == close(Fire(resetTerminalState(m), Msg("connection-closed")))

StreamData(dataStr) ==
    /\ chan = "open"
    /\ Step(onStreamData(Machine, dataStr), "data", dataStr, chan)

StreamClose ==
    /\ chan \in {"open", "ending"}
    /\ Step(onStreamClose(Machine), "streamClose", <<>>, "closed")

\* The host tears the session down with close(): a stream that is open is
\* ended and its 'close' event follows; without a stream nothing follows.
HostClose ==
    /\ chan \notin {"none", "ending", "closed"}
    /\ Step(close(Machine), "hostClose", <<>>,
            IF chan = "open" THEN "ending" ELSE "closed")

\* handleCdCommand after its await, the round trip having returned newDir.
cdResolved(m, i, newDir) ==
    LET targetPath == m.pend[i]
        m1 == [m EXCEPT !.pend = RemoveAt(@, i - 1),
                        !.tp.lastWorkingDirectory = m.tp.currentWorkingDirectory,
                        !.tp.currentWorkingDirectory = newDir]
    IN StreamWrite(m1, <<"c", "d", " ">> \o targetPath \o <<LF>>)

\* cdRejected with the directories already moved on before the round trip.
cdRejectedAfterUpdate(m, i) ==
    Fire([m EXCEPT !.pend = RemoveAt(@, i - 1),
                   !.tp.lastWorkingDirectory = m.tp.currentWorkingDirectory,
                   !.tp.currentWorkingDirectory = m.pend[i]],
         [k |-> "msg", n |-> 0, s |-> <<"cd-failed">>])

\* handleCdCommand after its await, the round trip having failed.
cdRejected(m, i) == Fire([m EXCEPT !.pend = RemoveAt(@, i - 1)], Msg("cd-failed"))

CdResolve(i, newDir) ==
    /\ i \in 1..Len(pend)
    /\ Step(cdResolved(Machine, i, newDir), "cdResolve", newDir, chan)

CdReject(i) ==
    /\ i \in 1..Len(pend)
    /\ Step(cdRejected(Machine, i), "cdReject", <<>>, chan)

\* The handler's success path: the message, the prompt, resolve(true).
transferSucceeded(m, i) ==
    FireAll([m EXCEPT !.xfer[i].isCompleted = TRUE, !.xfer[i].settled = TRUE,
                      !.xfer[i].ok = @ + 1],
            <<Msg("transferred"), PROMPT>>)

\* reject(err): when the awaited promise is still pending the catch block of
\* handleFileUpload / handleFileDownload runs and fires its own message.
transferRejected(m, i) ==
    IF m.xfer[i].settled THEN m
    ELSE Fire([m EXCEPT !.xfer[i].settled = TRUE, !.xfer[i].fail = @ + 1],
              Msg("transfer-failed"))

\* The 'error' handler of the pipe: guarded by isCompleted in the upload only.
transferErrored(m, i) ==
    LET m1 == [m EXCEPT !.xfer[i].errored = TRUE]
    IN IF m.xfer[i].kind = "rz"
       THEN IF m.xfer[i].isCompleted THEN m1
            ELSE transferRejected(
                   Fire([m1 EXCEPT !.xfer[i].isCompleted = TRUE, !.xfer[i].fail = @ + 1],
                        Msg("transfer-failed")), i)
       ELSE transferRejected(
              Fire([m1 EXCEPT !.xfer[i].fail = @ + 1], Msg("transfer-failed")), i)

\* An event of an outstanding transfer's streams, handled by the handlers of
\* handleFileUpload and handleFileDownload. After 'close' the streams emit
\* nothing more: the transfer is over.
onTransferEvent(m, i, ev) ==
    LET done == m.xfer[i].isCompleted
    IN CASE ev = "data" -> Fire(m, Msg("progress"))
         [] ev \in {"finish", "end"} -> IF done THEN m ELSE transferSucceeded(m, i)
         [] ev = "close" ->
              LET m1 == IF done THEN m ELSE transferSucceeded(m, i)
              IN [m1 EXCEPT !.xfer = RemoveAt(@, i - 1)]
         [] OTHER -> transferErrored(m, i)

TransferEvent(i, ev) ==
    /\ i \in 1..Len(xfer)
    /\ ev = "error" => ~xfer[i].errored
    /\ Step(onTransferEvent(Machine, i, ev), "transfer", <<ev>>, chan)

\* One chunk of terminal input handled by handleInput.
HandleInput(data) ==
    /\ chan \notin {"ending", "closed"}
    /\ Step(handleInput(Machine, data), "input", data, chan)

\* The user types a chunk of S once the shell is open.
TypeIn(S) == \E data \in S : chan = "open" /\ HandleInput(data)

\* The same, with the chunks of S typed only at the prompt (editor = FALSE) or
\* only while a full-screen program runs (editor = TRUE).
TypeInMode(S, editor) ==
    \E data \in S : chan = "open" /\ tp.isEditorMode = editor /\ HandleInput(data)

-----------------------------------------------------------------------------
(* The session: connection, commands, editor pass-through, round trips *)

ECHO_HI == <<"e", "c", "h", "o", " ", "h", "i">>
THERE == <<"t", "h", "e", "r", "e">>
CD_TMP == <<"c", "d", " ", "/", "t", "m", "p">>
VIM_FILE == <<"v", "i", "m", " ", "f", "i", "l", "e", ".", "t", "x", "t">>
TMP == <<"/", "t", "m", "p">>

\* Chunks the shell stream delivers.
StreamChunks == {<<"o">>, ALT_EXIT}
\* What the round trip may print: the target, or the directory a link leads to.
Dirs == {TMP, <<"/", "m", "n", "t">>}

\* At the prompt the user types commands, the continuation marker, Enter and
\* the interrupt byte; in a full-screen program, keys of that program.
Next ==
    \/ Open
    \/ Ready
    \/ ShellOpened
    \/ ShellError
    \/ ClientError
    \/ \E dataStr \in StreamChunks : StreamData(dataStr)
    \/ StreamClose
    \/ TypeInMode({ECHO_HI, CD_TMP, VIM_FILE, <<BSL>>, <<CR>>, <<ETX>>}, FALSE)
    \/ TypeInMode({<<"i">>, <<"Z", "Z">>, <<ESC, "[", "A">>, <<ETX>>}, TRUE)
    \/ \E i \in 1..MaxPend : \E newDir \in Dirs : CdResolve(i, newDir)
    \/ \E i \in 1..MaxPend : CdReject(i)

Spec == Init /\ [][Next]_vars

-----------------------------------------------------------------------------
(* Directory changes among transfers, editor sessions and transport events *)

\* `sz f gz`: the remote file and the local path, so that no save dialog opens.
SZ_FILE == <<"s", "z", " ", "f", " ", "g", "z">>

NextDir ==
    \/ Open
    \/ Ready
    \/ ShellOpened
    \/ \E dataStr \in StreamChunks : StreamData(dataStr)
    \/ StreamClose
    \/ TypeIn({CD_TMP, SZ_FILE, VIM_FILE, <<CR>>, <<ETX>>})
    \/ \E i \in 1..MaxPend : \E newDir \in Dirs : CdResolve(i, newDir)
    \/ \E i \in 1..MaxPend : CdReject(i)
    \/ \E i \in 1..MaxXfer : \E ev \in {"data", "close"} : TransferEvent(i, ev)

SpecDir == Init /\ [][NextDir]_vars

-----------------------------------------------------------------------------
(* Line editing: text, continuation and Enter *)

NextEdit ==
    \/ Open
    \/ Ready
    \/ ShellOpened
    \/ TypeIn({ECHO_HI, THERE, <<BSL>>, <<CR>>})

SpecEdit == Init /\ [][NextEdit]_vars

-----------------------------------------------------------------------------
(* Line editing: text, continuation, cursor-left and the interrupt byte *)

NextKeys ==
    \/ Open
    \/ Ready
    \/ ShellOpened
    \/ TypeIn({ECHO_HI, THERE, <<BSL>>, <<ESC, "[", "D">>, <<ETX>>})

SpecKeys == Init /\ [][NextKeys]_vars

-----------------------------------------------------------------------------
(* A full-screen editor started from the prompt and left by :wq *)

NextVim ==
    \/ Open
    \/ Ready
    \/ ShellOpened
    \/ TypeInMode({VIM_FILE, <<CR>>}, FALSE)
    \/ TypeInMode({<<ESC>>, <<":">>, <<"w">>, <<"q">>, <<LF>>}, TRUE)

SpecVim == Init /\ [][NextVim]_vars

-----------------------------------------------------------------------------
(* Command history: short commands typed on an empty line, Enter, Up and Down *)

NextHist ==
    \/ Open
    \/ Ready
    \/ ShellOpened
    \/ tp.cmd = <<>> /\ TypeIn({<<"l", "s">>, <<"p", "w", "d">>})
    \/ TypeIn({<<CR>>, <<ESC, "[", "A">>, <<ESC, "[", "B">>})

SpecHist == Init /\ [][NextHist]_vars

-----------------------------------------------------------------------------
(* Display widths: a wide character among narrow ones, inserted and deleted *)

NextWide ==
    \/ Open
    \/ Ready
    \/ ShellOpened
    \/ Len(tp.multiLineBuffer) < MaxWide /\ TypeIn({<<WIDE, "a">>})
    \/ TypeIn({<<DEL>>, KEY_DEL, <<ESC, "[", "D">>, <<ETX>>})

SpecWide == Init /\ [][NextWide]_vars

-----------------------------------------------------------------------------
(* The life of a session: input from open() on, failures and teardown *)

NextLife ==
    \/ Open
    \/ Ready
    \/ ShellOpened
    \/ ShellError
    \/ ClientError
    \/ StreamClose
    \/ HostClose
    \/ chan # "none" /\ \E data \in {ECHO_HI, THERE, <<BSL>>, <<FF>>} : HandleInput(data)

SpecLife == Init /\ [][NextLife]_vars

-----------------------------------------------------------------------------
(* Completion of a command name with Tab on the single line *)

NextTab ==
    \/ Open
    \/ Ready
    \/ ShellOpened
    \/ TypeIn({<<"s", "y", "s">>, <<"p", "w">>, <<"s">>, <<TAB>>, <<ETX>>})

SpecTab == Init /\ [][NextTab]_vars

-----------------------------------------------------------------------------
(* Completion with Tab when the cursor is inside the single line *)

MaxTabLine == 5

\* `sys` is typed on an empty line, `s` while the line is short, the keys at
\* any time.
NextTabAt ==
    \/ Open
    \/ Ready
    \/ ShellOpened
    \/ \E data \in {<<"s", "y", "s">>, <<"s">>, <<TAB>>, <<ETX>>, <<ESC, "[", "D">>} :
          /\ data = <<"s", "y", "s">> => tp.cmd = <<>>
          /\ data = <<"s">> => Len(tp.cmd) < MaxTabLine
          /\ TypeIn({data})

SpecTabAt == Init /\ [][NextTabAt]_vars

-----------------------------------------------------------------------------
(* Cursor keys over one or two lines that hold wide and narrow characters *)

NextMove ==
    \/ Open
    \/ Ready
    \/ ShellOpened
    \/ Len(tp.multiLineBuffer) < MaxWide /\ TypeIn({<<WIDE, "a">>, <<BSL>>})
    \/ TypeIn({<<ESC, "[", "D">>, <<ESC, "[", "C">>, <<ESC, "[", "A">>,
               <<ESC, "[", "H">>, <<ESC, "[", "F">>})

SpecMove == Init /\ [][NextMove]_vars

-----------------------------------------------------------------------------
(* From the single line to the multi-line buffer: text typed, pasted,       *)
(* completed or recalled on the single line, then the continuation marker   *)

\* Text is typed or pasted on an empty single line; Tab, Up and the
\* continuation marker are typed on the single line; Enter at any time.
NextCarry ==
    \/ Open
    \/ Ready
    \/ ShellOpened
    \/ \E data \in {<<"p","w">>, PASTE_START \o <<"p","w">> \o PASTE_END,
                     <<TAB>>, <<ESC,"[","A">>, <<BSL>>, <<CR>>} :
          /\ IF data \in {<<"p","w">>, PASTE_START \o <<"p","w">> \o PASTE_END}
             THEN tp.cmd = <<>> /\ ~tp.isMultiLine
             ELSE data # <<CR>> => ~tp.isMultiLine
          /\ TypeIn({data})

SpecCarry == Init /\ [][NextCarry]_vars

-----------------------------------------------------------------------------
(* Directory changes and commands whose first word merely begins with cd *)

CDROM_X == <<"c", "d", "r", "o", "m", " ", "x">>

NextCdWord ==
    \/ Open
    \/ Ready
    \/ ShellOpened
    \/ \E data \in {CD_TMP, CDROM_X, ECHO_HI, <<CR>>} :
          (data # <<CR>> => tp.cmd = <<>>) /\ TypeIn({data})
    \/ \E i \in 1..MaxPend : \E newDir \in Dirs : CdResolve(i, newDir)
    \/ \E i \in 1..MaxPend : CdReject(i)

SpecCdWord == Init /\ [][NextCdWord]_vars

-----------------------------------------------------------------------------
(* The Insert key on the single line and in the multi-line buffer *)

NextIns ==
    \/ Open
    \/ Ready
    \/ ShellOpened
    \/ \E data \in {<<"h", "i">>, <<BSL>>, KEY_INS, <<ETX>>} :
          (data = <<"h", "i">> => Len(tp.multiLineBuffer) < MaxWide) /\ TypeIn({data})

SpecIns == Init /\ [][NextIns]_vars

-----------------------------------------------------------------------------
(* Bracketed paste, with and without line breaks, on one line and on several *)

MaxPaste == 2

PASTE_A == PASTE_START \o <<"a">> \o PASTE_END
PASTE_B_C == PASTE_START \o <<"b", LF, "c">> \o PASTE_END

\* Text is pasted and the continuation marker typed while the buffer is
\* short; the cursor keys are typed at any time.
NextPaste ==
    \/ Open
    \/ Ready
    \/ ShellOpened
    \/ \E data \in {PASTE_A, PASTE_B_C, <<BSL>>, <<ESC, "[", "D">>, <<ESC, "[", "A">>} :
          /\ data \in {PASTE_A, PASTE_B_C, <<BSL>>}
                => (Len(tp.multiLineBuffer) < MaxPaste /\ Len(tp.cmd) < MaxPaste)
          /\ TypeIn({data})

SpecPaste == Init /\ [][NextPaste]_vars

-----------------------------------------------------------------------------
(* Backspace and Delete at the boundaries of the lines of the buffer *)

\* Text and the continuation marker are typed while the buffer is short,
\* Backspace and Delete while the column is not negative, the cursor keys at
\* any time.
NextJoin ==
    \/ Open
    \/ Ready
    \/ ShellOpened
    \/ \E data \in {<<"a">>, <<BSL>>, <<DEL>>, KEY_DEL, <<ESC, "[", "D">>, <<ESC, "[", "A">>} :
          /\ data \in {<<"a">>, <<BSL>>} => Len(tp.multiLineBuffer) < MaxPaste
          /\ data \in {<<DEL>>, KEY_DEL} => tp.currentColumn >= 0
          /\ TypeIn({data})

SpecJoin == Init /\ [][NextJoin]_vars

-----------------------------------------------------------------------------
(* The prompt of every system flavour, for several users, hosts, directories *)

Flavors == {"kali", "parrot", "blackarch", "ubuntu", "centos", "debian", ""}

\* The provider as constructed for a flavour and a connection string, with a
\* working directory cached.
InitPrompt ==
    /\ tp \in { [InitTp EXCEPT !.systemType = f, !.username = u, !.hostname = h,
                                !.currentWorkingDirectory = d] :
                   f \in Flavors, u \in {<<"u">>, <<"r", "o", "o", "t">>},
                   h \in {<<"h">>, <<"h", "o">>},
                   d \in {<<"~">>, TMP, <<"/">>, <<"/", WIDE>>} }
    /\ pend = <<>>
    /\ chan = "none"
    /\ xfer = <<>>
    /\ tabq = <<>>
    /\ pre = tp
    /\ last = [op |-> "new", data |-> <<>>, threw |-> FALSE, pending |-> 0]
    /\ writes = <<>>
    /\ sink = <<>>

\* The connection is made and the interrupt byte typed: the prompt is fired.
NextPrompt ==
    \/ Open
    \/ Ready
    \/ ShellOpened
    \/ TypeIn({<<ETX>>})

SpecPrompt == InitPrompt /\ [][NextPrompt]_vars

-----------------------------------------------------------------------------
(* Commands wrapped in sudo: options, editors, transfers and plain commands *)

SudoLines ==
    { <<"s","u","d","o"," ","v","i"," ","f">>,
      <<"s","u","d","o"," ","-","u"," ","r"," ","v","i">>,
      <<"s","u","d","o"," ","-","-"," ","e","d">>,
      <<"s","u","d","o"," ","-","u"," ","v","i">>,
      <<"s","u","d","o"," ","-","i">>,
      <<"s","u","d","o"," ","l","s">>,
      <<"s","u","d","o"," ","s","z"," ","f">>,
      <<"s","u","d","o"," ","s","z","x">> }

\* A command is typed on an empty line at the prompt, Enter at the prompt
\* while no transfer is outstanding, the keys that leave a full-screen
\* program while one runs.
NextSudo ==
    \/ Open
    \/ Ready
    \/ ShellOpened
    \/ \E data \in SudoLines \cup {<<CR>>, <<":">>, <<"q">>, <<LF>>} :
          /\ IF data \in SudoLines THEN tp.cmd = <<>> /\ ~tp.isEditorMode
             ELSE IF data = <<CR>> THEN xfer = <<>> /\ ~tp.isEditorMode
             ELSE tp.isEditorMode
          /\ TypeIn({data})
    \/ \E i \in 1..MaxXfer : \E ev \in {"data", "finish", "close", "error"} : TransferEvent(i, ev)

SpecSudo == Init /\ [][NextSudo]_vars

-----------------------------------------------------------------------------
(* Properties *)

\* The step just taken handled the input chunk `data` outside pass-through.
Typed(data) == last.op = "input" /\ last.data = data /\ ~pre.isEditorMode

\* The edit buffer of t is empty: no text, one empty line, cursor at origin.
EditReset(t) ==
    /\ t.cmd = <<>>
    /\ t.multiLineBuffer = <<>>
    /\ t.lineLengths = <<0>>
    /\ t.lineStartIndexes = <<0>>
    /\ t.lineDisplayWidths = << <<>> >>
    /\ t.cursorPosition = 0
    /\ t.currentLine = 0
    /\ t.currentColumn = 0

\* C1 (as amended): on a Normal-mode line holding `echo hi`, the continuation
\* marker alone begins MultiLine mode with line 0 `echo hi` and an empty
\* line 1, and nothing is dispatched or recorded; with `there` typed on line 1,
\* Enter dispatches the single command "echo hithere" (the lines joined with
\* nothing between them) and the session is back in Normal with an empty buffer.
ContinuationJoinsLines ==
    /\ (Typed(<<BSL>>) /\ ~pre.isMultiLine /\ pre.cmd = ECHO_HI)
         => /\ tp.isMultiLine
            /\ tp.multiLineBuffer = ECHO_HI
            /\ tp.lineLengths = <<7, 0>>
            /\ tp.lineStartIndexes = <<0, 7>>
            /\ tp.currentLine = 1 /\ tp.currentColumn = 0
            /\ writes = <<>>
            /\ tp.commandHistory = pre.commandHistory
    /\ (Typed(<<CR>>) /\ pre.isMultiLine /\ pre.lineLengths = <<7, 5>>
          /\ pre.multiLineBuffer = ECHO_HI \o THERE)
         => /\ writes = <<ECHO_HI \o THERE \o <<LF>>>>
            /\ ~tp.isMultiLine /\ ~tp.isEditorMode
            /\ EditReset(tp)

\* C1, witness: Enter on the two lines `echo hi` / `there` has dispatched.
ContinuationJoinsLinesWitness ==
    /\ Typed(<<CR>>) /\ pre.isMultiLine /\ pre.lineLengths = <<7, 5>>
    /\ pre.multiLineBuffer = ECHO_HI \o THERE
    /\ writes = <<ECHO_HI \o THERE \o <<LF>>>>
    /\ ~tp.isMultiLine

\* C1 (as stated): after `echo hi` and the continuation marker, Enter leaves the
\* session in MultiLine mode with nothing dispatched; after `there`, Enter
\* dispatches "echo hi\nthere".
ContinuationKeepsLineBreak ==
    /\ (Typed(<<CR>>) /\ pre.isMultiLine /\ pre.lineLengths = <<7, 0>>
          /\ pre.multiLineBuffer = ECHO_HI)
         => (tp.isMultiLine /\ writes = <<>>)
    /\ (Typed(<<CR>>) /\ pre.isMultiLine /\ pre.lineLengths = <<7, 5>>
          /\ pre.multiLineBuffer = ECHO_HI \o THERE)
         => (writes = <<ECHO_HI \o <<LF>> \o THERE \o <<LF>>>> /\ ~tp.isMultiLine)

\* C2: submitting a directory change writes nothing to the shell stream and
\* issues the round trip; when the round trip returns a path, that path is the
\* working directory; when it fails, workingDirectory and
\* previousWorkingDirectory keep their values, one error text goes to the
\* sink and nothing is written to the shell stream.
CdRoundTrip ==
    /\ (Typed(<<CR>>) /\ ~pre.isMultiLine /\ pre.cmd = CD_TMP)
         => (writes = <<>> /\ pend # <<>> /\ pend[Len(pend)] = TMP
               /\ tp.currentWorkingDirectory = pre.currentWorkingDirectory)
    /\ last.op = "cdResolve"
         => (tp.currentWorkingDirectory = last.data
               /\ tp.lastWorkingDirectory = pre.currentWorkingDirectory)
    /\ last.op = "cdReject"
         => /\ tp.currentWorkingDirectory = pre.currentWorkingDirectory
            /\ tp.lastWorkingDirectory = pre.lastWorkingDirectory
            /\ sink = <<Msg("cd-failed")>>
            /\ writes = <<>>

\* C2, witness: a directory change succeeded, then a later one failed.
CdRoundTripWitness ==
    /\ last.op = "cdReject"
    /\ tp.currentWorkingDirectory = TMP
    /\ tp.lastWorkingDirectory = <<"~">>
    /\ sink = <<Msg("cd-failed")>>

\* C3: submitting `vim file.txt` on a Normal-mode line puts the session in
\* pass-through; there each of the chunks `:`, `w`, `q` and newline is written
\* to the shell stream as it is; and the newline that completes `:wq` leaves
\* the session in Normal with the edit buffer empty and the cursor at origin.
VimWriteQuit ==
    /\ (Typed(<<CR>>) /\ ~pre.isMultiLine /\ pre.cmd = VIM_FILE)
         => (tp.isEditorMode /\ writes = <<VIM_FILE \o <<LF>>>>)
    /\ (last.op = "input" /\ pre.isEditorMode
          /\ last.data \in {<<":">>, <<"w">>, <<"q">>, <<LF>>})
         => writes = <<last.data>>
    /\ (last.op = "input" /\ pre.isEditorMode /\ last.data = <<LF>>
          /\ EndsWith(pre.editorBuffer, <<":", "w", "q">>))
         => (~tp.isEditorMode /\ ~tp.isMultiLine /\ tp.editorBuffer = <<>>
               /\ EditReset(tp))

\* C3, witness: in the editor started by `vim file.txt`, the newline after
\* `:wq` has been forwarded and the session is out of pass-through.
VimWriteQuitWitness ==
    /\ last.op = "input" /\ last.data = <<LF>>
    /\ pre.isEditorMode /\ pre.cmd = VIM_FILE
    /\ pre.editorBuffer = <<":", "w", "q">>
    /\ writes = << <<LF>> >>
    /\ ~tp.isEditorMode /\ EditReset(tp)

\* C4: an input chunk handled while the session is in pass-through (the shell
\* stream being open) is written to the shell stream once, as it is, also when
\* it ends the pass-through; nothing is fired on the local sink, and the
\* history and the working directory stay as they were.
PassthroughForwards ==
    (last.op = "input" /\ pre.isEditorMode)
        => /\ writes = <<last.data>>
           /\ sink = <<>>
           /\ tp.commandHistory = pre.commandHistory
           /\ tp.historyIndex = pre.historyIndex
           /\ tp.currentWorkingDirectory = pre.currentWorkingDirectory
           /\ tp.lastWorkingDirectory = pre.lastWorkingDirectory

\* C4, witness: the interrupt byte typed in the editor was forwarded and ended
\* the pass-through.
PassthroughForwardsWitness ==
    /\ last.op = "input" /\ last.data = <<ETX>>
    /\ pre.isEditorMode /\ pre.editorBuffer = <<"i">>
    /\ writes = << <<ETX>> >>
    /\ ~tp.isEditorMode
    /\ tp.commandHistory # <<>>

\* C5: when the session is in pass-through and a chunk from the transport
\* carries the alternate-screen-exit marker, the session is afterwards in
\* Normal with the pass-through buffer empty and the edit state reset, as
\* after an exit keystroke pattern.
AltScreenExitResets ==
    (last.op = "data" /\ Includes(last.data, ALT_EXIT) /\ pre.isEditorMode)
        => /\ ~tp.isEditorMode /\ ~tp.isMultiLine
           /\ tp.editorBuffer = <<>>
           /\ EditReset(tp)

\* C6: outside pass-through and with the shell stream open, the interrupt byte
\* writes exactly one interrupt byte to the stream and leaves the session in
\* Normal with the edit buffer empty and the cursor at origin, whatever the
\* buffer held and wherever the cursor was.
InterruptResets ==
    (Typed(<<ETX>>) /\ pre.sshStream)
        => /\ writes = << <<ETX>> >>
           /\ ~tp.isEditorMode /\ ~tp.isMultiLine
           /\ EditReset(tp)

\* C6, witness: the interrupt byte arrived with two lines in the buffer and the
\* cursor inside the first one.
InterruptResetsWitness ==
    /\ Typed(<<ETX>>) /\ pre.sshStream
    /\ pre.isMultiLine /\ Len(pre.lineLengths) = 2
    /\ pre.currentLine = 0 /\ pre.currentColumn = 3
    /\ writes = << <<ETX>> >>
    /\ EditReset(tp)

\* C7: after Enter handled outside pass-through the edit buffer is empty with
\* the cursor at origin, whatever command was dispatched, and the session is
\* in Normal, or in pass-through alone when the dispatch started an editor:
\* never in MultiLine.
EnterResets ==
    Typed(<<CR>>) => (EditReset(tp) /\ ~tp.isMultiLine)

\* C8: an input chunk is handled only when no round trip issued by an earlier
\* chunk is still outstanding: each chunk runs to completion, its round trip
\* included, before the next one is handled.
ChunksRunToCompletion ==
    last.op = "input" => last.pending = 0

\* C9: the working directory differs from what it was before a step only when
\* the step completed a successful directory-change round trip, and then it is
\* the path that round trip returned; input chunks, transport output, transfer
\* events, resets and failed round trips leave it as it was.
DirectoryChangesOnlyOnRoundTrip ==
    tp.currentWorkingDirectory # pre.currentWorkingDirectory
        => (last.op = "cdResolve" /\ tp.currentWorkingDirectory = last.data)

\* C9, witness: a round trip has moved the working directory from the home
\* shorthand to /tmp.
DirectoryChangesOnlyOnRoundTripWitness ==
    /\ last.op = "cdResolve"
    /\ pre.currentWorkingDirectory = <<"~">>
    /\ tp.currentWorkingDirectory = TMP
    /\ writes = <<CD_TMP \o <<LF>>>>

\* C10: a step leaves the entries the history already had in place and
\* unchanged (it can only append), and no two neighbouring entries are equal.
HistoryAppendOnly ==
    /\ Len(tp.commandHistory) >= Len(pre.commandHistory)
    /\ SubSeq(tp.commandHistory, 1, Len(pre.commandHistory)) = pre.commandHistory
    /\ \A i \in 1..(Len(tp.commandHistory) - 1) :
           tp.commandHistory[i] # tp.commandHistory[i + 1]

\* C10, witness: the last entry was submitted again and was not appended.
HistoryAppendOnlyWitness ==
    /\ Typed(<<CR>>) /\ ~pre.isMultiLine /\ pre.cmd = ECHO_HI
    /\ pre.commandHistory = <<CD_TMP, ECHO_HI>>
    /\ tp.commandHistory = <<CD_TMP, ECHO_HI>>

\* C11: every submission with Enter at the prompt leaves the history
\* navigation index at -1 (not navigating), also when the submitted text is
\* not appended because it equals the last entry.
SubmissionResetsHistoryIndex ==
    (Typed(<<CR>>) /\ ~pre.isMultiLine /\ Trim(pre.cmd) # <<>>) => tp.historyIndex = -1

\* C12: history navigation clamps at both ends. With n >= 1 entries, Up from
\* not-navigating shows entry n-1; Up at entry 0 keeps showing entry 0; Down at
\* entry n-1 shows the empty string, and so does every further Down; Up from
\* there shows entry n-1 again; and the navigation index is always in -1..n.
HistoryNavigationClamps ==
    LET h == pre.commandHistory
        n == Len(h)
        up == last.op = "input" /\ last.data \in KEY_UP /\ ~pre.isEditorMode
                /\ ~pre.isMultiLine /\ n >= 1
        down == last.op = "input" /\ last.data \in KEY_DOWN /\ ~pre.isEditorMode
                  /\ ~pre.isMultiLine /\ n >= 1
    IN /\ tp.historyIndex \in -1..Len(tp.commandHistory)
       /\ (up /\ pre.historyIndex \in {-1, n})
            => (tp.historyIndex = n - 1 /\ tp.cmd = h[n])
       /\ (up /\ pre.historyIndex = 0)
            => (tp.historyIndex = 0 /\ tp.cmd = h[1])
       /\ (down /\ pre.historyIndex \in {n - 1, n})
            => (tp.historyIndex = n /\ tp.cmd = <<>>)

\* C12, witness: with two entries, Up after Down had run past the last entry
\* shows the last entry again.
HistoryNavigationClampsWitness ==
    /\ last.op = "input" /\ last.data \in KEY_UP
    /\ Len(pre.commandHistory) = 2 /\ pre.historyIndex = 2 /\ pre.cmd = <<>>
    /\ tp.historyIndex = 1 /\ tp.cmd = pre.commandHistory[2]

\* C13 (as amended): starting with empty history, the second of two
\* successive `ls` submissions is not recorded, `pwd` is recorded after it, so
\* the history is [ls, pwd]; navigating backward from there shows `pwd` first
\* and `ls` second.
DuplicateSuppressedThenRecalled ==
    LET LS == <<"l", "s">>
        PWD == <<"p", "w", "d">>
        up == last.op = "input" /\ last.data \in KEY_UP /\ ~pre.isEditorMode
                /\ ~pre.isMultiLine /\ pre.commandHistory = <<LS, PWD>>
    IN /\ (Typed(<<CR>>) /\ pre.cmd = LS /\ pre.commandHistory = <<LS>>)
            => tp.commandHistory = <<LS>>
       /\ (Typed(<<CR>>) /\ pre.cmd = PWD /\ pre.commandHistory = <<LS>>)
            => (tp.commandHistory = <<LS, PWD>> /\ tp.historyIndex = -1)
       /\ (up /\ pre.historyIndex = -1) => (tp.cmd = PWD /\ tp.historyIndex = 1)
       /\ (up /\ pre.historyIndex = 1) => (tp.cmd = LS /\ tp.historyIndex = 0)

\* C13, witness: after `ls`, `ls`, `pwd` and one Up, a second Up shows `ls`.
DuplicateSuppressedThenRecalledWitness ==
    /\ last.op = "input" /\ last.data \in KEY_UP
    /\ pre.commandHistory = <<<<"l", "s">>, <<"p", "w", "d">>>>
    /\ pre.historyIndex = 1 /\ pre.cmd = <<"p", "w", "d">>
    /\ tp.cmd = <<"l", "s">> /\ tp.historyIndex = 0

\* C13 (as stated): with the history left by submitting `ls`, `ls`, `pwd`,
\* the first and the second backward navigation both show `ls`.
DuplicateRecalledTwice ==
    (/\ last.op = "input" /\ last.data \in KEY_UP /\ ~pre.isEditorMode
     /\ ~pre.isMultiLine
     /\ pre.commandHistory = <<<<"l", "s">>, <<"p", "w", "d">>>>
     /\ pre.historyIndex \in {-1, 1})
        => tp.cmd = <<"l", "s">>

\* C14: in MultiLine mode the line table is contiguous (the first line starts
\* at 0 and every next line starts where the line before it ends) and the
\* slices of the multi-line buffer given by each line's start and length,
\* concatenated in order, are the whole buffer.
LineTableCoversBuffer ==
    LET t == tp
        n == Len(t.lineLengths)
        RECURSIVE Pieces(_)
        Pieces(i) == IF i > n THEN <<>>
                     ELSE SliceU(t.multiLineBuffer, t.lineStartIndexes[i],
                                 Plus(t.lineStartIndexes[i], t.lineLengths[i]))
                            \o Pieces(i + 1)
    IN (t.isMultiLine /\ ~last.threw)
         => /\ Len(t.lineStartIndexes) = n
            /\ \A i \in 1..n : IsNum(t.lineStartIndexes[i]) /\ IsNum(t.lineLengths[i])
            /\ t.lineStartIndexes[1] = 0
            /\ \A i \in 1..(n - 1) :
                   t.lineStartIndexes[i + 1] = t.lineStartIndexes[i] + t.lineLengths[i]
            /\ Pieces(1) = t.multiLineBuffer

TeardownResets ==
    LET reset == ~tp.isMultiLine /\ ~tp.isEditorMode /\ EditReset(tp)
    IN /\ Typed(<<FF>>) => reset
       /\ last.op = "streamClose" => reset
       /\ chan = "closed" => reset

\* C17: every transport failure (the client's error event, the failure to
\* open the shell channel, the closure of the shell channel) fires a text
\* message on the sink and leaves the session in Normal with the edit buffer
\* empty and the cursor at origin.
TransportFailureResets ==
    last.op \in {"clientError", "shellError", "streamClose"}
      => /\ \E i \in 1..Len(sink) :
                sink[i] \in {Msg("ssh-error"), Msg("shell-error"), Msg("connection-closed")}
         /\ ~tp.isMultiLine /\ ~tp.isEditorMode /\ EditReset(tp)

\* C18: in every reachable state at most one file transfer is outstanding;
\* submitting a transfer command while a transfer is in progress does not
\* leave two transfers in progress.
AtMostOneTransfer == Len(xfer) <= 1

\* C19: once the shell channel has closed, a transfer that was in progress is
\* aborted: no event of a transfer is handled any more (so no progress or
\* completion text is fired) and no transfer is outstanding, its connection
\* having been released.
TransferAbortedOnClose ==
    chan = "closed" => (last.op # "transfer" /\ xfer = <<>>)

\* C20: in Normal mode, with the shell open and the line holding just `sys`,
\* Tab leaves the edit buffer equal to `systemctl ` (the single matching
\* command name and one space) with the cursor right after the space.
TabCompletesWithSpace ==
    (Typed(<<TAB>>) /\ ~pre.isMultiLine /\ pre.cmd = <<"s", "y", "s">>
       /\ pre.cursorPosition = 3)
      => /\ tp.cmd = <<"s", "y", "s", "t", "e", "m", "c", "t", "l", " ">>
         /\ tp.cursorPosition = 10

\* C21: with the cursor inside a line, in Normal and in MultiLine mode, the
\* left arrow moves the logical cursor one character to the left and fires
\* one cursor-left sequence of as many columns as the display width of the
\* character that was before the cursor: 2 for a wide character, 1 otherwise.
\* In MultiLine mode that character is read through the line table and its
\* width through the width table, so the statement is about the states in
\* which the line table is contiguous and the width table records the widths
\* of the characters of the current line.
LeftArrowMovesByWidth ==
    LET start == pre.lineStartIndexes[pre.currentLine + 1]
        left == Typed(<<ESC, "[", "D">>) /\ ~last.threw
                  /\ pre.lineStartIndexes[1] = 0
                  /\ \A i \in 1..(Len(pre.lineLengths) - 1) :
                         pre.lineStartIndexes[i + 1]
                            = pre.lineStartIndexes[i] + pre.lineLengths[i]
        recorded == /\ start + pre.lineLengths[pre.currentLine + 1]
                          <= Len(pre.multiLineBuffer)
                    /\ WidthsRow(pre, pre.currentLine)
                          = WidthsOf(SubSeq(pre.multiLineBuffer, start + 1,
                                            start + pre.lineLengths[pre.currentLine + 1]))
        before == pre.multiLineBuffer[start + pre.currentColumn]
    IN /\ (left /\ ~pre.isMultiLine /\ pre.cursorPosition > 0)
            => /\ tp.cursorPosition = pre.cursorPosition - 1
               /\ tp.cmd = pre.cmd
               /\ sink = <<Csi("D", getCharDisplayWidth(pre.cmd[pre.cursorPosition]))>>
       /\ (left /\ pre.isMultiLine /\ recorded /\ pre.currentColumn > 0)
            => /\ tp.currentColumn = pre.currentColumn - 1
               /\ tp.currentLine = pre.currentLine
               /\ tp.multiLineBuffer = pre.multiLineBuffer
               /\ sink = <<Csi("D", getCharDisplayWidth(before))>>

\* C21, witness: on line 1 of a multi-line buffer, the left arrow has stepped
\* over a wide character and fired a cursor-left of 2 columns.
LeftArrowMovesByWidthWitness ==
    /\ Typed(<<ESC, "[", "D">>) /\ pre.isMultiLine /\ pre.currentLine = 1
    /\ pre.currentColumn = 1
    /\ pre.lineLengths = <<2, 2>> /\ pre.lineStartIndexes = <<0, 2>>
    /\ pre.multiLineBuffer = <<WIDE, "a", WIDE, "a">>
    /\ tp.currentColumn = 0
    /\ sink = <<Csi("D", 2)>>

\* The terminal's side of a cursor sequence: where the terminal cursor is,
\* as (row, col) relative to the first line of the prompt, after sequence e.
\* A count of 0 moves by one, as terminals take it.
TermApply(pos, e) ==
    LET n == IF e.n = 0 THEN 1 ELSE e.n
    IN CASE e.k = "cr" -> [pos EXCEPT !.col = 0]
         [] e.k = "A" -> [pos EXCEPT !.row = @ - n]
         [] e.k = "B" -> [pos EXCEPT !.row = @ + n]
         [] e.k = "C" -> [pos EXCEPT !.col = @ + n]
         [] e.k = "D" -> [pos EXCEPT !.col = Max(0, @ - n)]
         [] OTHER -> pos

RECURSIVE TermRun(_, _)
TermRun(pos, es) == IF es = <<>> THEN pos ELSE TermRun(TermApply(pos, Head(es)), Tail(es))

\* Where the terminal cursor belongs for the logical position (line, column).
TermAt(t, line, column) ==
    [row |-> line,
     col |-> (IF line = 0 THEN calculatePromptVisibleLength(t) ELSE 2)
               + getDisplayWidthTo(t, line, column)]

\* C22: in every multi-line buffer, for all in-range positions, with the
\* terminal cursor where (L, C) belongs, the sequences of moveToPosition to a
\* second position followed by those of moveToPosition to a third one leave
\* the terminal cursor where the sequences of one moveToPosition to the third
\* position leave it.
MoveToPositionComposes ==
    tp.isMultiLine =>
      \A L, L1, L2 \in 0..(Len(tp.lineLengths) - 1) :
        \A C \in 0..tp.lineLengths[L + 1] :
          \A C1 \in 0..tp.lineLengths[L1 + 1] :
            \A C2 \in 0..tp.lineLengths[L2 + 1] :
              LET m0 == [Machine EXCEPT !.tp.currentLine = L, !.tp.currentColumn = C,
                                        !.tp.cursorPosition = C]
                  start == TermAt(tp, L, C)
              IN TermRun(start, moveToPosition(moveToPosition(m0, L1, C1), L2, C2).o)
                   = TermRun(start, moveToPosition(m0, L2, C2).o)

\* C23: when the continuation marker is typed at the end of the Normal-mode
\* line, the session is in MultiLine mode and the text of that line, however
\* it came to be there (typed, pasted, completed, recalled), is line 0 of the
\* multi-line buffer, which begins with it.
NormalTextCarriedOver ==
    /\ (Typed(<<BSL>>) /\ ~pre.isMultiLine /\ pre.cursorPosition = Len(pre.cmd)
          /\ ~last.threw)
         => /\ tp.isMultiLine
            /\ tp.lineLengths[1] = Len(pre.cmd)
            /\ StartsWith(tp.multiLineBuffer, pre.cmd)

\* C24: in MultiLine mode, with a contiguous line table, the continuation
\* marker typed with the cursor at a column c strictly inside line i (the last
\* line included) splits the line: line i keeps its first c characters, a new
\* line i+1 holds the rest, there is one line more, and the text of the
\* multi-line buffer is what it was.
SplitKeepsBuffer ==
    LET i == pre.currentLine + 1
        c == pre.currentColumn
        n == Len(pre.lineLengths)
    IN (/\ Typed(<<BSL>>) /\ pre.isMultiLine /\ ~last.threw
        /\ pre.lineStartIndexes[1] = 0
        /\ \A j \in 1..(n - 1) :
               pre.lineStartIndexes[j + 1] = pre.lineStartIndexes[j] + pre.lineLengths[j]
        /\ c > 0 /\ c < pre.lineLengths[i])
         => /\ Len(tp.lineLengths) = n + 1
            /\ tp.lineLengths[i] = c
            /\ tp.lineLengths[i + 1] = pre.lineLengths[i] - c
            /\ tp.multiLineBuffer = pre.multiLineBuffer

\* C25: in MultiLine mode, a text chunk of k characters typed into a line
\* moves the start of every later line up by k, and Backspace deleting one
\* character moves them down by one.
InsertShiftsLaterLines ==
    LET i == pre.currentLine + 1
        later == (i + 1)..Len(pre.lineStartIndexes)
        edited == pre.isMultiLine /\ ~last.threw
                    /\ Len(tp.lineStartIndexes) = Len(pre.lineStartIndexes)
    IN /\ (Typed(<<WIDE, "a">>) /\ edited)
            => \A j \in later : tp.lineStartIndexes[j] = pre.lineStartIndexes[j] + 2
       /\ (Typed(<<DEL>>) /\ edited /\ Len(tp.multiLineBuffer) < Len(pre.multiLineBuffer))
            => \A j \in later : tp.lineStartIndexes[j] = pre.lineStartIndexes[j] - 1


\* C26: a line submitted in Normal mode with the shell open is handled as a
\* directory change (a remote round trip is issued and nothing is written to
\* the shell stream) if and only if its primary command word is exactly `cd`;
\* and a line whose primary word is neither `cd`, nor a transfer trigger
\* (`rz`, `sz`), nor the interrupt pseudo-command is written to the shell
\* stream exactly once, as its text followed by a newline.
DirectoryChangeIffCd ==
    LET word == primaryCommandOf(Trim(pre.cmd))
        submitted == Typed(<<CR>>) /\ ~pre.isMultiLine /\ pre.sshStream
                       /\ pre.sshClient /\ ~last.threw
        roundTrip == Len(pend) + Len(tabq) > last.pending
    IN /\ submitted => (roundTrip <=> word = <<"c", "d">>)
       /\ (submitted /\ word \notin { <<"c", "d">>, <<"r", "z">>, <<"s", "z">>,
                                      <<"C", "t", "r", "l", "-", "C">> })
            => writes = <<pre.cmd \o <<LF>>>>


\* C27: for a line submitted in Normal mode with the shell open whose first
\* word is `sudo`, the primary command word is the first token after `sudo`
\* that is not an option; the session is in pass-through afterwards exactly
\* when that word is one of the full-screen-program names, a transfer has been
\* started exactly when that word is `rz` or `sz`, and a line that starts no
\* transfer is written to the shell stream in full, followed by a newline.
SudoClassifiedByPrimaryWord ==
    LET line == pre.cmd
        word == primaryCommandOf(line)
        trigger == word \in { <<"r", "z">>, <<"s", "z">> }
        submitted == Typed(<<CR>>) /\ ~pre.isMultiLine /\ pre.sshStream
                       /\ baseCommandOf(line) = <<"s", "u", "d", "o">>
    IN submitted => /\ tp.isEditorMode <=> word \in editorCommands
                    /\ xfer # <<>> <=> trigger
                    /\ ~trigger => writes = <<line \o <<LF>>>>


\* C28: when Tab is pressed and the last whitespace-delimited token P of the
\* text before the cursor on the current line has exactly one match M among
\* the names known locally, then afterwards the buffer is the old buffer with
\* M, optionally followed by one space, in place of P, the text after the
\* cursor is unchanged and the cursor is right after the inserted text; with
\* no match, buffer and cursor are unchanged. In Normal and MultiLine mode,
\* wherever the cursor is.
TabReplacesPrefixAtCursor ==
    LET multi == pre.isMultiLine
        start == IF multi THEN pre.lineStartIndexes[pre.currentLine + 1] ELSE 0
        col == IF multi THEN pre.currentColumn ELSE pre.cursorPosition
        old == IF multi THEN pre.multiLineBuffer ELSE pre.cmd
        new == IF multi THEN tp.multiLineBuffer ELSE tp.cmd
        newCol == IF multi THEN tp.currentColumn ELSE tp.cursorPosition
        before == SubSeq(old, 1, start + col)
        after == SubSeq(old, start + col + 1, Len(old))
        lineBefore == SubSeq(old, start + 1, start + col)
        pieces == SplitWs(lineBefore, <<>>, FALSE)
        P == pieces[Len(pieces)]
        stem == SubSeq(before, 1, Len(before) - Len(P))
        q == getTabSuggestions(pre, lineBefore, IF multi THEN before ELSE <<>>)
    IN (Typed(<<TAB>>) /\ ~last.threw /\ ~q.remote /\ start + col <= Len(old))
         => /\ Len(q.list) = 1
                  => \E sp \in {<<>>, <<" ">>} :
                        /\ new = stem \o q.list[1] \o sp \o after
                        /\ newCol = col - Len(P) + Len(q.list[1]) + Len(sp)
            /\ Len(q.list) = 0 => (new = old /\ newCol = col)


\* C29: the Insert key, in Normal and in MultiLine mode, only toggles
\* insertMode and fires one cursor-shape sequence: the text of the edit
\* buffer, the line table, the logical cursor and the phase are as before
\* (so a second press restores insertMode as well).
InsertKeyOnlyToggles ==
    (Typed(KEY_INS) /\ ~last.threw)
      => /\ tp = [pre EXCEPT !.isInsertMode = ~pre.isInsertMode]
         /\ sink = <<Csi(IF pre.isInsertMode THEN "2 q" ELSE "4 q", 0)>>


\* C30: in MultiLine mode, with a contiguous line table, the recorded widths
\* those of the characters and the terminal cursor where the logical cursor
\* belongs, after a cursor key (Left, Right, Up, Home, End), a key that leaves
\* the cursor where it was included, the cursor sequences fired have put the
\* terminal cursor on the row of the target line, at the column of that
\* line's prefix (the prompt on line 0, 2 columns elsewhere) plus the display
\* widths of the characters before the target column.
CursorMoveLandsOnTarget ==
    LET n == Len(pre.lineLengths)
        lineText(j) == SubSeq(pre.multiLineBuffer, pre.lineStartIndexes[j] + 1,
                              pre.lineStartIndexes[j] + pre.lineLengths[j])
        moved == /\ last.op = "input" /\ ~pre.isEditorMode /\ ~last.threw
                 /\ last.data \in { <<ESC, "[", "D">>, <<ESC, "[", "C">>, <<ESC, "[", "A">>,
                                    <<ESC, "[", "H">>, <<ESC, "[", "F">> }
                 /\ pre.isMultiLine
                 /\ Len(pre.lineStartIndexes) = n /\ Len(pre.lineDisplayWidths) = n
                 /\ pre.lineStartIndexes[1] = 0
                 /\ \A j \in 1..(n - 1) :
                       pre.lineStartIndexes[j + 1] = pre.lineStartIndexes[j] + pre.lineLengths[j]
                 /\ pre.lineStartIndexes[n] + pre.lineLengths[n] = Len(pre.multiLineBuffer)
                 /\ \A j \in 1..n : pre.lineDisplayWidths[j] = WidthsOf(lineText(j))
    IN moved => TermRun(TermAt(pre, pre.currentLine, pre.currentColumn), sink)
                  = TermAt(tp, tp.currentLine, tp.currentColumn)


\* C31: in MultiLine mode the right arrow at the last column of a line that
\* has a next line moves the logical cursor to column 0 of the next line; the
\* left arrow at column 0 of a line that has a previous line moves it to the
\* end of the previous line; the right arrow at the end of the last line and
\* the left arrow at (0, 0) leave it where it was; none changes the buffer.
CrossLineMovement ==
    LET i == pre.currentLine
        n == Len(pre.lineLengths)
        key(d) == Typed(d) /\ pre.isMultiLine /\ ~last.threw /\ i < n
        right == key(<<ESC, "[", "C">>) /\ pre.currentColumn = pre.lineLengths[i + 1]
        left == key(<<ESC, "[", "D">>) /\ pre.currentColumn = 0
        same == tp.multiLineBuffer = pre.multiLineBuffer
                  /\ tp.lineLengths = pre.lineLengths
                  /\ tp.lineStartIndexes = pre.lineStartIndexes
    IN /\ (right /\ i + 1 < n)
            => (tp.currentLine = i + 1 /\ tp.currentColumn = 0 /\ same)
       /\ (right /\ i + 1 = n)
            => (tp.currentLine = i /\ tp.currentColumn = pre.currentColumn /\ same)
       /\ (left /\ i > 0)
            => (tp.currentLine = i - 1 /\ tp.currentColumn = pre.lineLengths[i] /\ same)
       /\ (left /\ i = 0)
            => (tp.currentLine = 0 /\ tp.currentColumn = 0 /\ same)

\* C31, witness: the left arrow at column 0 of line 1 has put the cursor at
\* the end of a line 0 that holds text.
CrossLineMovementWitness ==
    /\ Typed(<<ESC, "[", "D">>) /\ pre.isMultiLine /\ ~last.threw
    /\ pre.currentLine = 1 /\ pre.currentColumn = 0
    /\ pre.lineLengths[1] = 2
    /\ tp.currentLine = 0 /\ tp.currentColumn = 2


\* C32: a bracketed-paste payload without a line break is inserted at the
\* cursor and leaves the phase as it was; a payload of k > 1 lines leaves the
\* session in MultiLine mode with k - 1 logical lines more, and, the line
\* table being contiguous, the lines that followed the cursor line follow the
\* pasted lines with their text.
PasteInsertsLines ==
    LET n == Len(pre.lineLengths)
        i == pre.currentLine
        at == IF pre.isMultiLine THEN pre.lineStartIndexes[i + 1] + pre.currentColumn
              ELSE pre.cursorPosition
        old == IF pre.isMultiLine THEN pre.multiLineBuffer ELSE pre.cmd
        new == IF pre.isMultiLine THEN tp.multiLineBuffer ELSE tp.cmd
        lineOf(t, j) == SubSeq(t.multiLineBuffer, t.lineStartIndexes[j] + 1,
                               t.lineStartIndexes[j] + t.lineLengths[j])
        contiguous == /\ Len(pre.lineStartIndexes) = n
                      /\ pre.lineStartIndexes[1] = 0
                      /\ \A j \in 1..(n - 1) :
                            pre.lineStartIndexes[j + 1]
                               = pre.lineStartIndexes[j] + pre.lineLengths[j]
                      /\ pre.lineStartIndexes[n] + pre.lineLengths[n]
                            = Len(pre.multiLineBuffer)
                      /\ pre.currentColumn <= pre.lineLengths[i + 1]
    IN /\ (Typed(PASTE_A) /\ ~last.threw /\ at <= Len(old))
            => /\ tp.isMultiLine = pre.isMultiLine
               /\ new = SubSeq(old, 1, at) \o <<"a">> \o SubSeq(old, at + 1, Len(old))
       /\ (Typed(PASTE_B_C) /\ ~last.threw)
            => /\ tp.isMultiLine
               /\ Len(tp.lineLengths) = n + 1
       /\ (Typed(PASTE_B_C) /\ ~last.threw /\ pre.isMultiLine /\ contiguous)
            => /\ Len(tp.lineStartIndexes) = n + 1
               /\ \A j \in (i + 2)..n : lineOf(tp, j + 1) = lineOf(pre, j)


\* C32, witness: a payload of two lines has been pasted on line 0 of a
\* two-line buffer whose line 1 held `a`; there are three lines, and `a` is
\* the last one.
PasteInsertsLinesWitness ==
    /\ Typed(PASTE_B_C) /\ ~last.threw /\ pre.isMultiLine
    /\ pre.currentLine = 0 /\ pre.lineLengths = <<0, 1>> /\ pre.lineStartIndexes = <<0, 0>>
    /\ pre.multiLineBuffer = <<"a">>
    /\ tp.lineLengths = <<1, 1, 1>>
    /\ tp.multiLineBuffer = <<"b", "c", "a">>


\* C33: in MultiLine mode, with a contiguous line table, Backspace at column 0
\* of a line that has a previous line, and Delete at the end of a line that
\* has a next line, join the two lines whatever they hold: there is one line
\* fewer, the joined line is as long as the two lines together, and the text
\* of the multi-line buffer is what it was.
LineBoundaryDeletionJoins ==
    LET n == Len(pre.lineLengths)
        i == pre.currentLine
        contiguous == /\ pre.isMultiLine /\ ~last.threw /\ i < n
                      /\ Len(pre.lineStartIndexes) = n
                      /\ pre.lineStartIndexes[1] = 0
                      /\ \A j \in 1..(n - 1) :
                            pre.lineStartIndexes[j + 1]
                               = pre.lineStartIndexes[j] + pre.lineLengths[j]
                      /\ pre.lineStartIndexes[n] + pre.lineLengths[n]
                            = Len(pre.multiLineBuffer)
        joined(k) == /\ Len(tp.lineLengths) = n - 1
                     /\ tp.lineLengths[k] = pre.lineLengths[k] + pre.lineLengths[k + 1]
                     /\ tp.multiLineBuffer = pre.multiLineBuffer
    IN /\ (Typed(<<DEL>>) /\ contiguous /\ pre.currentColumn = 0 /\ i > 0) => joined(i)
       /\ (Typed(KEY_DEL) /\ contiguous /\ pre.currentColumn = pre.lineLengths[i + 1]
              /\ i + 1 < n) => joined(i + 1)


\* The columns a piece of prompt text takes on the terminal: none for a
\* colour sequence, two for a wide character or an emoji, one otherwise.
RECURSIVE VisibleColumns(_)
VisibleColumns(text) ==
    IF text = <<>> THEN 0
    ELSE (CASE Head(text) = "SGR" -> 0
            [] Head(text) \in {"SKULL", WIDE} -> 2
            [] OTHER -> 1) + VisibleColumns(Tail(text))

\* The text after the last line break of `text`.
RECURSIVE LastLine(_)
LastLine(text) ==
    IF text = <<>> \/ text[Len(text)] \in {CR, LF} THEN <<>>
    ELSE Append(LastLine(SubSeq(text, 1, Len(text) - 1)), text[Len(text)])

\* C34: for every system flavour, user name, host name and working
\* directory, calculatePromptVisibleLength is the number of visible columns
\* of the last line of the prompt text of getPrompt.
PromptWidthMatchesPrompt ==
    calculatePromptVisibleLength(tp) = VisibleColumns(LastLine(getPrompt(tp)))


-----------------------------------------------------------------------------
(* A full-screen program announced by the alternate-screen markers only *)

\* No editor command is typed: pass-through begins with the enter marker alone.
NextAlt ==
    \/ Open
    \/ Ready
    \/ ShellOpened
    \/ \E dataStr \in {ALT_ENTER, ALT_EXIT} : StreamData(dataStr)
    \/ \E data \in {<<"Z">>, <<"a">>, <<"q">>} :
          /\ ~tp.isEditorMode => Len(tp.cmd) < MaxPaste
          /\ TypeIn({data})

SpecAlt == Init /\ [][NextAlt]_vars

\* C35: between the alternate-screen-enter marker and the next exit marker
\* (here the only way into and, by the transport, out of pass-through) a typed
\* chunk leaves the session in pass-through, is written to the shell stream as
\* it is, and nothing is fired locally.
AltScreenKeepsPassthrough ==
    (last.op = "input" /\ pre.isEditorMode)
        => /\ tp.isEditorMode
           /\ writes = <<last.data>>
           /\ sink = <<>>

\* C36: commands reach the shell stream in the order they were submitted: the
\* command `echo hi` submitted with Enter while a directory-change round trip
\* is still outstanding is not written to the shell stream in that step, the
\* directory change (written when its round trip resolves) having to come
\* first.
CommandsReachShellInOrder ==
    (Typed(<<CR>>) /\ pre.cmd = ECHO_HI /\ last.pending > 0) => writes = <<>>

\* C37: in every state reached by input in Normal and MultiLine mode the
\* logical cursor is in range: 0 <= currentLine < number of lines,
\* 0 <= currentColumn <= recorded length of the current line, in Normal mode
\* currentColumn = cursorPosition <= length of the text; and no key raised an
\* error.
LogicalCursorInRange ==
    ~tp.isEditorMode
        => /\ 0 <= tp.currentLine /\ tp.currentLine < Len(tp.lineLengths)
           /\ 0 <= tp.currentColumn
           /\ tp.currentColumn <= tp.lineLengths[tp.currentLine + 1]
           /\ ~tp.isMultiLine => /\ tp.currentColumn = tp.cursorPosition
                                 /\ tp.cursorPosition <= Len(tp.cmd)
           /\ ~last.threw

\* C38: in every reachable state the three line tables (lengths, start
\* offsets, width lists) have the same number of entries, every line records
\* as many character widths as its recorded length, and in Normal mode the
\* recorded length of the single line is the length of the text.
LineTablesAgree ==
    /\ Len(tp.lineLengths) = Len(tp.lineStartIndexes)
    /\ Len(tp.lineLengths) = Len(tp.lineDisplayWidths)
    /\ \A i \in 1..Len(tp.lineLengths) :
          i <= Len(tp.lineDisplayWidths)
              => Len(tp.lineDisplayWidths[i]) = tp.lineLengths[i]
    /\ (~tp.isMultiLine /\ ~tp.isEditorMode) => tp.lineLengths[1] = Len(tp.cmd)

-----------------------------------------------------------------------------
(* Uploads and downloads under every order of their streams' events *)

\* `rz f`: the local file named, so that no open dialog is shown.
RZ_FILE == <<"r", "z", " ", "f">>

NextXfer ==
    \/ Open
    \/ Ready
    \/ ShellOpened
    \/ \E data \in {RZ_FILE, SZ_FILE, <<CR>>} :
          (data # <<CR>> => tp.cmd = <<>>) /\ TypeIn({data})
    \/ \E i \in 1..MaxXfer :
          \E ev \in {"data", "finish", "end", "close", "error"} : TransferEvent(i, ev)

SpecXfer == Init /\ [][NextXfer]_vars

\* C39: for each upload and each download at most one terminal outcome has
\* been reported at any time: one success message or one failure message,
\* never both and never the same one twice, whatever events of the transfer's
\* streams have occurred and in whatever order.
TransferReportsOnce ==
    \A i \in 1..Len(xfer) : xfer[i].ok + xfer[i].fail <= 1

\* C40: in any reachable Normal or MultiLine state with the shell open and no
\* round trip pending, typing the printable character `a` and then pressing
\* Backspace restores the edit text (the single-line text in Normal mode, the
\* buffer in MultiLine mode), the line table (lengths, start offsets, widths)
\* and the logical cursor to their values before the character was typed, and
\* neither key raises an error.
TypeThenBackspaceRestores ==
    (chan = "open" /\ ~tp.isEditorMode /\ pend = <<>> /\ tabq = <<>>)
        => LET typed == handleInput([Machine EXCEPT !.threw = FALSE], <<"a">>)
               erased == handleInput(typed, <<DEL>>)
               t == erased.tp
           IN /\ ~erased.threw
              /\ t.isMultiLine = tp.isMultiLine
              /\ IF tp.isMultiLine THEN t.multiLineBuffer = tp.multiLineBuffer
                                   ELSE t.cmd = tp.cmd /\ t.cursorPosition = tp.cursorPosition
              /\ t.lineLengths = tp.lineLengths
              /\ t.lineStartIndexes = tp.lineStartIndexes
              /\ t.lineDisplayWidths = tp.lineDisplayWidths
              /\ t.currentLine = tp.currentLine
              /\ t.currentColumn = tp.currentColumn

====
